---- MODULE Spec2Model ----
(***************************************************************************)
(* A state-machine model of V8's incremental marker                        *)
(* (src/heap/incremental-marking.cc): the controller state machine, the    *)
(* write barrier, the marking visitor with its progress bar, the worklist  *)
(* drain loop, left trimming and the worklist rewrite after a scavenge.    *)
(*                                                                         *)
(* Heap objects are named by their word address.  The mark bitmap holds    *)
(* one bit per word; the colour of the object at address a is the pair     *)
(* (bits[a], bits[a+1]).  Sizes and offsets are counted in words.          *)
(***************************************************************************)
EXTENDS Integers, Sequences, FiniteSets, TLC

VARIABLES
    \* ---- controller (IncrementalMarking fields)
    state,                                     \* state_
    is_compacting,                             \* is_compacting_
    should_hurry,                              \* should_hurry_
    was_activated,                             \* was_activated_
    black_allocation,                          \* black_allocation_
    finalize_marking_completed,                \* finalize_marking_completed_
    request_type,                              \* request_type_
    bytes_allocated,                           \* bytes_allocated_
    bytes_marked_ahead_of_schedule,            \* bytes_marked_ahead_of_schedule_
    idle_marking_delay_counter,                \* idle_marking_delay_counter_
    incremental_marking_finalization_rounds,   \* incremental_marking_finalization_rounds_
    unscanned_bytes_of_large_object,           \* unscanned_bytes_of_large_object_
    \* ---- heap and marking data
    kind,            \* address -> kind of the object that starts there
    fields,          \* address -> sequence of tagged pointers (0 = not a heap object)
    bits,            \* the mark bitmap, one bit per word
    progress_bar,    \* address -> MemoryChunk::progress_bar() of the object's page
    worklist,        \* the shared marking worklist (a stack)
    bailout,         \* the bailout worklist
    recorded_slots,  \* slots handed to MarkCompactCollector::RecordSlot / RecordRelocSlot
    roots,           \* the strong roots
    retained_maps,   \* Heap::retained_maps(): weak cell, age, weak cell, age, ..
    number_of_disposed_maps,    \* Heap::number_of_disposed_maps_
    abort_incremental_marking,  \* Heap::ShouldAbortIncrementalMarking()
    \* ---- collaborators
    observers,            \* allocation observers registered on the spaces
    stub_mode,            \* modes of the RecordWrite stubs in Heap::code_stubs()
    barrier_active,       \* page flags set by ActivateIncrementalWriteBarrier
    gc_requested,         \* StackGuard GC request pending
    FLAG_concurrent_marking,
    V8_CONCURRENT_MARKING,
    \* ---- scavenge view of the heap (UpdateMarkingWorklistAfterScavenge)
    space,           \* address -> "old" | "to" | "from"
    forwarding,      \* address -> forwarding address in the map word, 0 if none
    sweep_to_iterate,\* address -> Page::SWEEP_TO_ITERATE of the object's page
    external_bits,   \* address -> colour in MarkingState::External
    \* ---- control
    pc,              \* "idle", or "drain" inside ProcessMarkingWorklist
    frame,           \* arguments and locals of the running Step / Hurry
    last,            \* the latest completed call and what it returned
    stores           \* number of mutator operations performed so far

vars == << state, is_compacting, should_hurry, was_activated, black_allocation,
           finalize_marking_completed, request_type, bytes_allocated,
           bytes_marked_ahead_of_schedule, idle_marking_delay_counter,
           incremental_marking_finalization_rounds,
           unscanned_bytes_of_large_object,
           kind, fields, bits, progress_bar, worklist, bailout, recorded_slots,
           roots, observers, stub_mode, barrier_active, gc_requested,
           FLAG_concurrent_marking, V8_CONCURRENT_MARKING, space, forwarding, sweep_to_iterate,
           external_bits, pc, frame, last, stores, retained_maps,
           number_of_disposed_maps, abort_incremental_marking >>

ctlVars == << state, is_compacting, should_hurry, was_activated, black_allocation,
              finalize_marking_completed, request_type, bytes_allocated,
              bytes_marked_ahead_of_schedule, idle_marking_delay_counter,
              incremental_marking_finalization_rounds >>

markVars == << bits, progress_bar, worklist, bailout, recorded_slots,
               unscanned_bytes_of_large_object >>

retainVars == << retained_maps, number_of_disposed_maps,
                abort_incremental_marking >>

heapVars == << kind, fields, roots, retainVars >>

collabVars == << observers, stub_mode, barrier_active, gc_requested >>

buildVars == << FLAG_concurrent_marking, V8_CONCURRENT_MARKING >>

scavVars == << space, forwarding, sweep_to_iterate, external_bits >>

-----------------------------------------------------------------------------
(* Bounds of the model *)

\* mutator stores and left trims per behaviour
MaxStores == 1

\* entries the shared worklist holds before Push fails
WorklistCapacity == 3

\* cap on bytes_marked_ahead_of_schedule_ and bytes_allocated_
MaxCredit == 3

-----------------------------------------------------------------------------
(* Program constants; sizes are in words, the 32 KiB chunk is scaled to 2 *)

kProgressBarScanningChunk == 2

\* FixedArray::BodyDescriptor::kStartOffset: the header, one word here
kStartOffset == 1

kMaxIdleMarkingDelayCounter == 1

FLAG_max_incremental_marking_finalization_rounds == 2

\* IncrementalMarking::kAllocatedThreshold, in words of the model
kAllocatedThreshold == 2

FLAG_min_progress_during_incremental_marking_finalization == 1

Max(a, b) == IF a >= b THEN a ELSE b

Min(a, b) == IF a <= b THEN a ELSE b

-----------------------------------------------------------------------------
(* Mark bits: Marking::IsWhite .. Marking::BlackToGrey on MarkBit pairs *)

IsWhite(b, o) == ~b[o]

IsGrey(b, o) == b[o] /\ ~b[o + 1]

IsBlack(b, o) == b[o] /\ b[o + 1]

IsImpossible(b, o) == ~b[o] /\ b[o + 1]

\* MarkBit::Set: true iff the bit changed
SetBit(b, a) == [b EXCEPT ![a] = TRUE]

CanWhiteToGrey(b, o) == ~b[o]

WhiteToGrey(b, o) == SetBit(b, o)

CanGreyToBlack(b, o) == b[o] /\ ~b[o + 1]

GreyToBlack(b, o) == IF b[o] THEN SetBit(b, o + 1) ELSE b

CanWhiteToBlack(b, o) == CanWhiteToGrey(b, o) /\ CanGreyToBlack(WhiteToGrey(b, o), o)

WhiteToBlack(b, o) ==
    IF CanWhiteToGrey(b, o) THEN GreyToBlack(WhiteToGrey(b, o), o) ELSE b

BlackToGrey(b, o) == [b EXCEPT ![o + 1] = FALSE]

-----------------------------------------------------------------------------
(* The marking worklist (MarkCompactCollector::MarkingWorklist) *)

IsFull(wl) == Len(wl) >= WorklistCapacity

\* m is the marking data threaded through the visitor:
\*   [bits, worklist, bailout, slots, progress_bar, unscanned]
Push(m, o) ==
    IF IsFull(m.worklist) THEN m
    ELSE [m EXCEPT !.worklist = Append(@, o)]

PushBailout(m, o) == [m EXCEPT !.bailout = Append(@, o)]

WorklistIsEmpty(wl, bo) == wl = << >> /\ bo = << >>

MarkingWorklistSize(wl, bo) == Len(wl) + Len(bo)

-----------------------------------------------------------------------------
(* Object layout: word 0 of an object is its map word, the body follows *)

NULL == 0

MapOf(o) == fields[o][1]

SizeFromMap(o) == Len(fields[o])

\* the tagged value stored at a word offset of the object
FieldAt(o, offset) == fields[o][offset + 1]

\* HeapObject::IsFiller: a one-pointer filler, a two-pointer filler or free space
IsFiller(o) == kind[o] \in {"one_pointer_filler", "two_pointer_filler"}

\* MemoryChunk::IsFlagSet(HAS_PROGRESS_BAR) for the page of the object
HasProgressBar(pb, o) == o \in DOMAIN pb

IsFixedArrayWithProgressBar(pb, o) == kind[o] = "array" /\ HasProgressBar(pb, o)

-----------------------------------------------------------------------------
(* Marking primitives of the controller *)

\* IncrementalMarking::WhiteToGreyAndPush; the result of Push is not looked at
WhiteToGreyAndPush(m, o) ==
    IF CanWhiteToGrey(m.bits, o)
    THEN Push([m EXCEPT !.bits = WhiteToGrey(@, o)], o)
    ELSE m

\* MarkCompactCollector::PushBlack: a failed push turns the object grey again
PushBlack(m, o) ==
    IF IsFull(m.worklist)
    THEN [m EXCEPT !.bits = BlackToGrey(@, o)]
    ELSE Push(m, o)

\* IncrementalMarking::MarkBlackAndPush
MarkBlackAndPush(m, obj) ==
    LET b1 == IF CanWhiteToGrey(m.bits, obj) THEN WhiteToGrey(m.bits, obj)
              ELSE m.bits
    IN  IF CanGreyToBlack(b1, obj)
        THEN LET m1 == [m EXCEPT !.bits = GreyToBlack(b1, obj)]
             IN  IF V8_CONCURRENT_MARKING THEN PushBailout(m1, obj)
                 ELSE IF IsFull(m1.worklist)
                 THEN [m1 EXCEPT !.bits = BlackToGrey(@, obj)]
                 ELSE Push(m1, obj)
        ELSE [m EXCEPT !.bits = b1]

\* MarkCompactCollector::RecordSlot(host, slot, value), as a log of the slots
RecordSlot(m, host, offset) == [m EXCEPT !.slots = @ \cup {<<host, offset>>}]

\* IncrementalMarkingMarkingVisitor::MarkObject
MarkObject(m, host, target) == WhiteToGreyAndPush(m, target)

\* IncrementalMarkingMarkingVisitor::VisitPointers over the offsets [start, end)
RECURSIVE VisitPointers(_, _, _, _)
VisitPointers(m, host, start, end) ==
    IF start >= end THEN m
    ELSE LET target == FieldAt(host, start)
             m1 == IF target # NULL
                   THEN MarkObject(RecordSlot(m, host, start), host, target)
                   ELSE m
         IN  VisitPointers(m1, host, start + 1, end)

\* a scan of one chunk that does not move start_offset forward
ScanChunks_NoAdvance(m, object, object_size, start_offset, end_offset) ==
    [m |-> VisitPointers(m, object, start_offset, end_offset),
     start_offset |-> start_offset]

\* the do-while loop of VisitFixedArray; yields the marking data and start_offset
RECURSIVE ScanChunks(_, _, _, _, _)
ScanChunks(m, object, object_size, start_offset, end_offset) ==
    LET m1 == VisitPointers(m, object, start_offset, end_offset)
        start1 == end_offset
        end1 == Min(object_size, end_offset + kProgressBarScanningChunk)
        scan_until_end == IsFull(m1.worklist)
    IN  IF scan_until_end /\ start1 < object_size
        THEN ScanChunks(m1, object, object_size, start1, end1)
        ELSE [m |-> m1, start_offset |-> start1]

\* the re-push of a partly scanned array at the head of VisitFixedArray
RepushArray(m, object) ==
    IF V8_CONCURRENT_MARKING THEN PushBailout(m, object)
    ELSE IF IsGrey(m.bits, object) THEN Push(m, object)
    ELSE PushBlack(m, object)

\* a visitor that keeps the unscanned rest of the array to itself
NotifyIncompleteScanOfObject_Dropped(m, unscanned_bytes) == m

\* IncrementalMarking::NotifyIncompleteScanOfObject
NotifyIncompleteScanOfObject(m, unscanned_bytes) ==
    [m EXCEPT !.unscanned = unscanned_bytes]

\* a visit that starts at the progress bar even when that lies in the header
VisitFixedArray_FromProgressBar(m, object) ==
    LET object_size == SizeFromMap(object) IN
    IF HasProgressBar(m.progress_bar, object)
    THEN LET start_offset == m.progress_bar[object] IN
         IF start_offset < object_size
         THEN LET m1 == RepushArray(m, object)
                  end_offset ==
                      Min(object_size, start_offset + kProgressBarScanningChunk)
                  r == ScanChunks(m1, object, object_size, start_offset, end_offset)
                  m2 == [r.m EXCEPT !.progress_bar[object] = r.start_offset]
              IN  IF r.start_offset < object_size
                  THEN NotifyIncompleteScanOfObject(m2,
                           object_size - (r.start_offset - start_offset))
                  ELSE m2
         ELSE m
    ELSE VisitPointers(m, object, kStartOffset, object_size)

\* IncrementalMarkingMarkingVisitor::VisitFixedArray
VisitFixedArray(m, object) ==
    LET object_size == SizeFromMap(object) IN
    IF HasProgressBar(m.progress_bar, object)
    THEN LET start_offset == Max(kStartOffset, m.progress_bar[object]) IN
         IF start_offset < object_size
         THEN LET m1 == RepushArray(m, object)
                  end_offset ==
                      Min(object_size, start_offset + kProgressBarScanningChunk)
                  already_scanned_offset == start_offset
                  r == ScanChunks(m1, object, object_size, start_offset, end_offset)
                  m2 == [r.m EXCEPT !.progress_bar[object] = r.start_offset]
              IN  IF r.start_offset < object_size
                  THEN NotifyIncompleteScanOfObject(m2,
                           object_size - (r.start_offset - already_scanned_offset))
                  ELSE m2
         ELSE m
    ELSE VisitPointers(m, object, kStartOffset, object_size)

\* Context::NORMALIZED_MAP_CACHE_INDEX: the slot of a native context that holds
\* its normalized-map cache, the first body slot here
NORMALIZED_MAP_CACHE_INDEX == 1

\* StaticMarkingVisitor::VisitNativeContext (Parent): the strong slots of the
\* context are visited like the body of any object
ParentVisitNativeContext(m, context) ==
    VisitPointers(m, context, kStartOffset, SizeFromMap(context))

\* a visit of a native context that pushes the cache it greys
VisitNativeContext_PushesCache(m, context) ==
    ParentVisitNativeContext(m, context)

\* IncrementalMarkingMarkingVisitor::VisitNativeContext: the cache is greyed
\* and not pushed; an undefined cache is NULL here
VisitNativeContext(m, context) ==
    LET cache == FieldAt(context, NORMALIZED_MAP_CACHE_INDEX)
        m1 == IF cache # NULL /\ CanWhiteToGrey(m.bits, cache)
              THEN [m EXCEPT !.bits = WhiteToGrey(@, cache)]
              ELSE m
    IN  ParentVisitNativeContext(m1, context)

\* StaticVisitor dispatch: Visit(map, obj)
Visit(m, obj) ==
    IF kind[obj] = "array" THEN VisitFixedArray(m, obj)
    ELSE IF kind[obj] = "native_context" THEN VisitNativeContext(m, obj)
    ELSE VisitPointers(m, obj, kStartOffset, SizeFromMap(obj))

\* a visit that leaves the object Grey
VisitObject_NoBlacken(m, obj) ==
    Visit(WhiteToGreyAndPush(m, MapOf(obj)), obj)

\* a visit that skips an object that is Black already
VisitObject_SkipsBlack(m, obj) ==
    IF IsBlack(m.bits, obj) THEN m
    ELSE Visit(WhiteToGreyAndPush([m EXCEPT !.bits = GreyToBlack(@, obj)],
                                  MapOf(obj)), obj)

\* IncrementalMarking::VisitObject
VisitObject(m, obj) ==
    LET m1 == [m EXCEPT !.bits = GreyToBlack(@, obj)]
        m2 == WhiteToGreyAndPush(m1, MapOf(obj))
    IN  Visit(m2, obj)

\* IncrementalMarking::RevisitObject
RevisitObject(m, obj) ==
    LET m1 == IF HasProgressBar(m.progress_bar, obj)
              THEN [m EXCEPT !.progress_bar[obj] = 0]
              ELSE m
        m2 == WhiteToGreyAndPush(m1, MapOf(obj))
    IN  Visit(m2, obj)

\* IncrementalMarkingRootMarkingVisitor over Heap::IterateStrongRoots
RECURSIVE MarkRootSet(_, _)
MarkRootSet(m, rs) ==
    IF rs = {} THEN m
    ELSE LET r == CHOOSE x \in rs : \A y \in rs : x <= y
         IN  MarkRootSet(WhiteToGreyAndPush(m, r), rs \ {r})

\* the marking data of the current state, and its write-back
Marking ==
    [bits |-> bits, worklist |-> worklist, bailout |-> bailout,
     slots |-> recorded_slots, progress_bar |-> progress_bar,
     unscanned |-> unscanned_bytes_of_large_object]

SetMarking(m) ==
    /\ bits' = m.bits
    /\ worklist' = m.worklist
    /\ bailout' = m.bailout
    /\ recorded_slots' = m.slots
    /\ progress_bar' = m.progress_bar
    /\ unscanned_bytes_of_large_object' = m.unscanned

-----------------------------------------------------------------------------
(* Controller predicates (incremental-marking.h) *)

IsStopped == state = "STOPPED"

\* IsMarking() is state() >= MARKING
IsMarking == state \in {"MARKING", "COMPLETE"}

IsComplete == state = "COMPLETE"

NoFrame == [caller |-> "none"]

Idle == pc = "idle"

-----------------------------------------------------------------------------
(* Start, StartMarking, black allocation, Stop *)

\* MarkCompactCollector::VerifyMarkbitsAreClean: StartMarking relies on the
\* sweeper having cleared the marking bits
MarkbitsAreClean == \A a \in DOMAIN bits : ~bits[a]

\* every RecordWrite stub of the dictionary sm is in the given mode
StubsAre(sm, mode) == \A i \in DOMAIN sm : sm[i] = mode

\* a patch that leaves every stub in INCREMENTAL mode
PatchIncrementalMarkingRecordWriteStubs_Incremental(mode) ==
    stub_mode' = [i \in DOMAIN stub_mode |-> "INCREMENTAL"]

\* PatchIncrementalMarkingRecordWriteStubs(heap, mode): RecordWriteStub::Patch
\* on every RecordWrite stub of Heap::code_stubs()
PatchIncrementalMarkingRecordWriteStubs(mode) ==
    stub_mode' = [i \in DOMAIN stub_mode |-> mode]

\* the words of the linear allocation areas of old, map and code space
LinearAllocationAreas ==
    {a \in DOMAIN space : space[a] \in {"old_area", "map_area", "code_area"}}

\* a start of black allocation that sets the flag and marks no area
StartBlackAllocation_FlagOnly(m) == m

\* IncrementalMarking::StartBlackAllocation on the marking data: the callers
\* set black_allocation; MarkAllocationInfoBlack sets every mark bit of the
\* linear allocation area of old, map and code space
StartBlackAllocation(m) ==
    [m EXCEPT !.bits = [a \in DOMAIN @ |-> @[a] \/ a \in LinearAllocationAreas]]

\* StartMarking that returns at once, as it does with the serializer enabled
StartMarking_Returns(compaction, serializer_enabled) ==
    UNCHANGED << is_compacting, state, stub_mode, barrier_active,
                 black_allocation, markVars >>

\* IncrementalMarking::StartMarking; compaction is what StartCompaction()
\* answers, serializer_enabled what Isolate::serializer_enabled() answers
StartMarking(compaction, serializer_enabled) ==
    IF serializer_enabled
    THEN UNCHANGED << is_compacting, state, stub_mode, barrier_active,
                      black_allocation, markVars >>
    ELSE /\ is_compacting' = compaction
         /\ state' = "MARKING"
         /\ PatchIncrementalMarkingRecordWriteStubs(
                IF compaction THEN "INCREMENTAL_COMPACTION" ELSE "INCREMENTAL")
         /\ barrier_active' = TRUE
         /\ black_allocation' = (black_allocation \/ FLAG_concurrent_marking)
         \* marking_worklist()->StartUsing(), black allocation starts under
         \* concurrent marking, then the strong roots turn grey
         /\ LET m == [Marking EXCEPT !.worklist = << >>, !.bailout = << >>]
            IN  SetMarking(MarkRootSet(
                    IF FLAG_concurrent_marking /\ ~black_allocation
                    THEN StartBlackAllocation(m) ELSE m, roots))

\* IncrementalMarking::Start, called with the serializer disabled (DCHECK);
\* sweeping_in_progress is what the compacting collector reports
Start(sweeping_in_progress) ==
    /\ Idle
    /\ state = "STOPPED"
    /\ MarkbitsAreClean
    /\ bytes_allocated' = 0
    /\ bytes_marked_ahead_of_schedule' = 0
    /\ should_hurry' = FALSE
    /\ was_activated' = TRUE
    /\ IF ~sweeping_in_progress
       THEN \E compaction \in BOOLEAN : StartMarking(compaction, FALSE)
       ELSE /\ state' = "SWEEPING"
            /\ UNCHANGED << is_compacting, stub_mode, barrier_active,
                            black_allocation, markVars >>
    /\ observers' = TRUE
    /\ last' = [op |-> "Start", sweeping_in_progress |-> sweeping_in_progress,
                bytes_allocated |-> bytes_allocated,
                bytes_marked_ahead_of_schedule |->
                    bytes_marked_ahead_of_schedule,
                was_activated |-> was_activated]
    /\ UNCHANGED << finalize_marking_completed, request_type,
                    idle_marking_delay_counter,
                    incremental_marking_finalization_rounds, heapVars,
                    gc_requested, buildVars, scavVars, pc, frame,
                    stores >>

\* a finish that leaves black allocation on
FinishBlackAllocation_StaysOn == UNCHANGED black_allocation

\* IncrementalMarking::FinishBlackAllocation
FinishBlackAllocation == black_allocation' = FALSE

\* IncrementalMarking::Stop
Stop ==
    /\ Idle
    /\ IF IsStopped
       THEN UNCHANGED << state, is_compacting, should_hurry, black_allocation,
                         collabVars >>
       ELSE /\ observers' = FALSE
            /\ should_hurry' = FALSE
            /\ IF IsMarking
               THEN /\ PatchIncrementalMarkingRecordWriteStubs(
                           "STORE_BUFFER_ONLY")
                    /\ barrier_active' = FALSE
               ELSE UNCHANGED << stub_mode, barrier_active >>
            /\ gc_requested' = FALSE
            /\ state' = "STOPPED"
            /\ is_compacting' = FALSE
            /\ FinishBlackAllocation
    /\ last' = [op |-> "Stop", from |-> state, is_compacting |-> is_compacting,
                black_allocation |-> black_allocation]
    /\ UNCHANGED << was_activated, finalize_marking_completed, request_type,
                    bytes_allocated, bytes_marked_ahead_of_schedule,
                    idle_marking_delay_counter,
                    incremental_marking_finalization_rounds, markVars,
                    heapVars, buildVars, scavVars, pc, frame, stores >>

-----------------------------------------------------------------------------
(* The write barrier *)

\* a barrier that records the write but never marks the value
BaseRecordWrite_NoMarking(m, obj, value) ==
    [m |-> m, restart |-> FALSE,
     result |-> is_compacting /\ (FLAG_concurrent_marking \/ IsBlack(m.bits, obj))]

\* a barrier that takes a grey host, not a black one, as the one to record
BaseRecordWrite_GreyHost(m, obj, value) ==
    LET need_recording == FLAG_concurrent_marking \/ IsGrey(m.bits, obj)
        pushed == need_recording /\ CanWhiteToGrey(m.bits, value)
    IN  [m |-> IF pushed THEN WhiteToGreyAndPush(m, value) ELSE m,
         restart |-> pushed,
         result |-> is_compacting /\ need_recording]

\* a barrier that marks the value whatever the colour of the host
BaseRecordWrite_AnyHost(m, obj, value) ==
    LET need_recording == FLAG_concurrent_marking \/ IsBlack(m.bits, obj)
        pushed == CanWhiteToGrey(m.bits, value)
    IN  [m |-> IF pushed THEN WhiteToGreyAndPush(m, value) ELSE m,
         restart |-> pushed,
         result |-> is_compacting /\ need_recording]

\* IncrementalMarking::BaseRecordWrite: the marking data after the call, whether
\* RestartIfNotMarking ran, and the value returned
BaseRecordWrite(m, obj, value) ==
    LET need_recording == FLAG_concurrent_marking \/ IsBlack(m.bits, obj)
        pushed == need_recording /\ CanWhiteToGrey(m.bits, value)
    IN  [m |-> IF pushed THEN WhiteToGreyAndPush(m, value) ELSE m,
         restart |-> pushed,
         result |-> is_compacting /\ need_recording]

\* RecordWriteSlow without the test of the slot against NULL
RecordWriteSlow_NoNullCheck(m, obj, slot, value) ==
    LET r == BaseRecordWrite(m, obj, value)
    IN  [m |-> IF r.result THEN RecordSlot(r.m, obj, slot) ELSE r.m,
         restart |-> r.restart,
         registered |-> r.result]

\* IncrementalMarking::RecordWriteSlow; slot is the word offset, NULL for no slot
RecordWriteSlow(m, obj, slot, value) ==
    LET r == BaseRecordWrite(m, obj, value)
        registered == r.result /\ slot # NULL
    IN  [m |-> IF registered THEN RecordSlot(r.m, obj, slot) ELSE r.m,
         restart |-> r.restart,
         registered |-> registered]

\* IncrementalMarking::RecordWriteIntoCodeSlow; the relocation slot is logged
\* under the offset of the code target
RecordWriteIntoCodeSlow(m, host, rinfo, value) ==
    LET r == BaseRecordWrite(m, host, value)
    IN  [m |-> IF r.result THEN RecordSlot(r.m, host, rinfo) ELSE r.m,
         restart |-> r.restart,
         registered |-> r.result]

\* RestartIfNotMarking (incremental-marking.h)
RestartIfNotMarking(restart) ==
    state' = IF restart /\ state = "COMPLETE" THEN "MARKING" ELSE state

\* the objects a mutator store may name
Objects == {o \in DOMAIN kind : kind[o] # "none"}

Hosts == {o \in Objects : kind[o] \in {"object", "array"}}

CodeHosts == {o \in Objects : kind[o] = "code"}

\* a mutator store host[offset] := value followed by
\* IncrementalMarking::RecordWrite(host, slot, value); has_slot tells whether the
\* caller passes the slot address
RecordWrite(host, offset, value, has_slot) ==
    /\ Idle
    /\ stores < MaxStores
    /\ stores' = stores + 1
    /\ fields' = [fields EXCEPT ![host][offset + 1] = value]
    /\ IF IsMarking /\ value # NULL
       THEN LET r == RecordWriteSlow(Marking, host,
                                     IF has_slot THEN offset ELSE NULL, value)
            IN  /\ SetMarking(r.m)
                /\ RestartIfNotMarking(r.restart)
                /\ last' = [op |-> "RecordWriteSlow", host |-> host,
                            offset |-> offset, has_slot |-> has_slot,
                            value |-> value, old |-> FieldAt(host, offset),
                            registered |-> r.registered]
       ELSE /\ UNCHANGED << markVars, state >>
            /\ last' = [op |-> "RecordWrite"]
    /\ UNCHANGED << is_compacting, should_hurry, was_activated,
                    black_allocation, finalize_marking_completed, request_type,
                    bytes_allocated, bytes_marked_ahead_of_schedule,
                    idle_marking_delay_counter,
                    incremental_marking_finalization_rounds, kind, roots,
                    collabVars, buildVars, retainVars, scavVars, pc, frame >>

\* IncrementalMarking::RecordCodeTargetPatch(host, pc, value): the code target
\* of host is rewritten and RecordWriteIntoCode runs
RecordCodeTargetPatch(host, value) ==
    /\ Idle
    /\ stores < MaxStores
    /\ stores' = stores + 1
    /\ fields' = [fields EXCEPT ![host][kStartOffset + 1] = value]
    /\ IF IsMarking
       THEN LET r == RecordWriteIntoCodeSlow(Marking, host, kStartOffset, value)
            IN  /\ SetMarking(r.m)
                /\ RestartIfNotMarking(r.restart)
                /\ last' = [op |-> "RecordWriteIntoCodeSlow", host |-> host,
                            offset |-> kStartOffset, has_slot |-> TRUE,
                            value |-> value,
                            old |-> FieldAt(host, kStartOffset),
                            registered |-> r.registered]
       ELSE /\ UNCHANGED << markVars, state >>
            /\ last' = [op |-> "RecordCodeTargetPatch"]
    /\ UNCHANGED << is_compacting, should_hurry, was_activated,
                    black_allocation, finalize_marking_completed, request_type,
                    bytes_allocated, bytes_marked_ahead_of_schedule,
                    idle_marking_delay_counter,
                    incremental_marking_finalization_rounds, kind, roots,
                    collabVars, buildVars, retainVars, scavVars, pc, frame >>

-----------------------------------------------------------------------------
(* Left trimming and allocation in a black area *)

\* a colour transfer that treats overlapping mark bits like any others
NotifyLeftTrimming_NoOverlapCase(m, from, to) ==
    IF black_allocation /\ IsBlack(m.bits, to)
    THEN [m |-> m, restart |-> FALSE]
    ELSE
    LET marked_black_due_to_left_trimming ==
            /\ FLAG_concurrent_marking
            /\ CanGreyToBlack(WhiteToGrey(m.bits, from), from)
        b1 == IF FLAG_concurrent_marking
              THEN GreyToBlack(WhiteToGrey(m.bits, from), from)
              ELSE m.bits
    IN  IF IsBlack(b1, from) /\ ~marked_black_due_to_left_trimming
        THEN [m |-> [m EXCEPT !.bits = WhiteToBlack(b1, to)],
              restart |-> FALSE]
        ELSE IF IsGrey(b1, from) \/ marked_black_due_to_left_trimming
        THEN [m |-> Push([m EXCEPT !.bits = WhiteToGrey(b1, to)], to),
              restart |-> TRUE]
        ELSE [m |-> [m EXCEPT !.bits = b1], restart |-> FALSE]

\* a colour transfer that treats every pair of mark bits as overlapping
NotifyLeftTrimming_AlwaysOverlap(m, from, to) ==
    IF black_allocation /\ IsBlack(m.bits, to)
    THEN [m |-> m, restart |-> FALSE]
    ELSE
    LET marked_black_due_to_left_trimming ==
            /\ FLAG_concurrent_marking
            /\ CanGreyToBlack(WhiteToGrey(m.bits, from), from)
        b1 == IF FLAG_concurrent_marking
              THEN GreyToBlack(WhiteToGrey(m.bits, from), from)
              ELSE m.bits
    IN  IF IsBlack(b1, from) /\ ~marked_black_due_to_left_trimming
        THEN [m |-> [m EXCEPT !.bits = SetBit(b1, to + 1)],
              restart |-> FALSE]
        ELSE IF IsGrey(b1, from) \/ marked_black_due_to_left_trimming
        THEN [m |-> Push([m EXCEPT !.bits = SetBit(b1, to)], to),
              restart |-> TRUE]
        ELSE [m |-> [m EXCEPT !.bits = b1], restart |-> FALSE]

\* a colour transfer that pushes the new start of a Black array as well
NotifyLeftTrimming_PushesBlack(m, from, to) ==
    IF black_allocation /\ IsBlack(m.bits, to)
    THEN [m |-> m, restart |-> FALSE]
    ELSE
    LET marked_black_due_to_left_trimming ==
            /\ FLAG_concurrent_marking
            /\ CanGreyToBlack(WhiteToGrey(m.bits, from), from)
        b1 == IF FLAG_concurrent_marking
              THEN GreyToBlack(WhiteToGrey(m.bits, from), from)
              ELSE m.bits
        overlap == from + 1 = to
    IN  IF IsBlack(b1, from) /\ ~marked_black_due_to_left_trimming
        THEN [m |-> Push([m EXCEPT !.bits = IF overlap THEN SetBit(b1, to + 1)
                                            ELSE WhiteToBlack(b1, to)], to),
              restart |-> FALSE]
        ELSE IF IsGrey(b1, from) \/ marked_black_due_to_left_trimming
        THEN [m |-> Push([m EXCEPT !.bits = IF overlap THEN SetBit(b1, to)
                                            ELSE WhiteToGrey(b1, to)], to),
              restart |-> TRUE]
        ELSE [m |-> [m EXCEPT !.bits = b1], restart |-> FALSE]

\* IncrementalMarking::NotifyLeftTrimming(from, to): the marking data after the
\* call and whether RestartIfNotMarking was called
NotifyLeftTrimming(m, from, to) ==
    IF black_allocation /\ IsBlack(m.bits, to)
    THEN [m |-> m, restart |-> FALSE]
    ELSE
    LET marked_black_due_to_left_trimming ==
            /\ FLAG_concurrent_marking
            /\ CanGreyToBlack(WhiteToGrey(m.bits, from), from)
        b1 == IF FLAG_concurrent_marking
              THEN GreyToBlack(WhiteToGrey(m.bits, from), from)
              ELSE m.bits
        overlap == from + 1 = to
    IN  IF IsBlack(b1, from) /\ ~marked_black_due_to_left_trimming
        THEN [m |-> [m EXCEPT !.bits = IF overlap THEN SetBit(b1, to + 1)
                                       ELSE WhiteToBlack(b1, to)],
              restart |-> FALSE]
        ELSE IF IsGrey(b1, from) \/ marked_black_due_to_left_trimming
        THEN [m |-> Push([m EXCEPT !.bits = IF overlap THEN SetBit(b1, to)
                                            ELSE WhiteToGrey(b1, to)], to),
              restart |-> TRUE]
        ELSE [m |-> [m EXCEPT !.bits = b1], restart |-> FALSE]

Colour(b, o) ==
    IF IsBlack(b, o) THEN "black"
    ELSE IF IsGrey(b, o) THEN "grey"
    ELSE IF IsImpossible(b, o) THEN "impossible"
    ELSE "white"

\* the arrays Heap::CanMoveObjectStart lets the mutator trim: not in large
\* object space
Trimmable == {o \in DOMAIN kind : kind[o] = "array" /\ o \notin DOMAIN progress_bar}

\* Heap::LeftTrimFixedArray(object, elements_to_trim): the first words of the
\* array become a filler, the array starts elements_to_trim words further on,
\* and NotifyLeftTrimming runs if marking is on; the references to the array
\* follow it
LeftTrimFixedArray(object, elements_to_trim) ==
    LET to == object + elements_to_trim
        size == SizeFromMap(object)
        move(x) == IF x = object THEN to ELSE x
    IN  /\ Idle
        /\ stores < MaxStores
        /\ size - elements_to_trim >= 2
        /\ stores' = stores + 1
        /\ kind' = [kind EXCEPT
                        ![object] = IF elements_to_trim = 1
                                    THEN "one_pointer_filler"
                                    ELSE "two_pointer_filler",
                        ![to] = "array"]
        /\ fields' = [o \in DOMAIN fields |->
                         IF o = object THEN [i \in 1 .. elements_to_trim |-> NULL]
                         ELSE IF o = to
                         THEN << MapOf(object) >> \o
                              SubSeq(fields[object], elements_to_trim + 2, size)
                         ELSE [i \in DOMAIN fields[o] |->
                                  IF i > 1 THEN move(fields[o][i])
                                  ELSE fields[o][i]]]
        /\ roots' = {move(r) : r \in roots}
        /\ IF IsMarking
           THEN LET r == NotifyLeftTrimming(Marking, object, to)
                    \* ClearRecordedSlots::kYes for the trimmed words, and the
                    \* slots that stay are now slots of the new start
                    kept == {sl \in r.m.slots : sl[1] # object}
                            \cup {<<to, sl[2] - elements_to_trim>> :
                                     sl \in {x \in r.m.slots :
                                                x[1] = object
                                                /\ x[2] > elements_to_trim}}
                IN  /\ SetMarking([r.m EXCEPT !.slots = kept])
                    /\ RestartIfNotMarking(r.restart)
                    /\ last' = [op |-> "NotifyLeftTrimming", from |-> object,
                                to |-> to,
                                from_colour |-> Colour(bits, object),
                                to_colour |-> Colour(bits, to)]
           ELSE /\ UNCHANGED << markVars, state >>
                /\ last' = [op |-> "LeftTrimFixedArray"]
        /\ UNCHANGED << is_compacting, should_hurry, was_activated,
                        black_allocation, finalize_marking_completed,
                        request_type, bytes_allocated,
                        bytes_marked_ahead_of_schedule,
                        idle_marking_delay_counter,
                        incremental_marking_finalization_rounds, collabVars,
                        buildVars, retainVars, scavVars, pc, frame >>

\* an array of the given size is allocated at a free address while black
\* allocation is on: the allocation area is a black area, every mark bit of
\* which is set (PagedSpace::MarkAllocationInfoBlack); a handle roots the array
AllocateInBlackArea(address, size) ==
    /\ Idle
    /\ IsMarking
    /\ black_allocation
    /\ \A a \in address .. (address + size - 1) : kind[a] = "none" /\ ~bits[a]
    /\ kind' = [kind EXCEPT ![address] = "array"]
    /\ fields' = [fields EXCEPT ![address] =
                                   << 1 >> \o [i \in 1 .. (size - 1) |-> NULL]]
    /\ bits' = [a \in DOMAIN bits |->
                   IF a \in address .. (address + size - 1) THEN TRUE
                   ELSE bits[a]]
    /\ roots' = roots \cup {address}
    /\ last' = [op |-> "AllocateInBlackArea"]
    /\ UNCHANGED << ctlVars, progress_bar, worklist, bailout, recorded_slots,
                    unscanned_bytes_of_large_object, collabVars, buildVars, retainVars,
                    scavVars, pc, frame, stores >>

-----------------------------------------------------------------------------
(* The scavenger and the update of the worklist after it *)

InFromSpace(o) == space[o] = "from"

InToSpace(o) == space[o] = "to"

\* what a scavenge does with a new-space object
ScavengeOutcomes ==
    {"dead", "copied", "promoted", "page_moved_in_new_space",
     "page_moved_to_old_space"}

\* Heap::Scavenge up to its call of UpdateMarkingWorklistAfterScavenge: the
\* new-space object is dead (its root, a frame, is gone), or is copied to
\* the free address dest in to-space or in old space with its colour, or stays
\* where it is on a page that moves as a whole and is flagged SWEEP_TO_ITERATE
\* with an external marking state of its own
Scavenge(object, dest, outcome, external) ==
    LET moved == outcome \in {"copied", "promoted"}
        move(x) == IF x = object /\ moved THEN dest ELSE x
    IN  /\ Idle
        /\ kind[object] \notin {"none", "map"}
        /\ InToSpace(object)
        /\ ~sweep_to_iterate[object]
        /\ kind[dest] = "none" /\ kind[dest + 1] = "none"
        /\ SizeFromMap(object) = 2
        /\ pc' = "scavenged"
        /\ space' = [space EXCEPT
                         ![object] =
                             IF outcome = "page_moved_in_new_space" THEN "to"
                             ELSE IF outcome = "page_moved_to_old_space"
                             THEN "old"
                             ELSE "from",
                         ![dest] = IF outcome = "copied" THEN "to"
                                   ELSE IF outcome = "promoted" THEN "old"
                                   ELSE @]
        /\ forwarding' = [forwarding EXCEPT
                              ![object] = IF moved THEN dest ELSE NULL]
        /\ sweep_to_iterate' =
               [sweep_to_iterate EXCEPT
                    ![object] = outcome \in {"page_moved_in_new_space",
                                             "page_moved_to_old_space"}]
        /\ external_bits' =
               [external_bits EXCEPT
                    ![object] = IF sweep_to_iterate'[object] THEN external
                                ELSE @]
        /\ kind' = [kind EXCEPT ![dest] = IF moved THEN kind[object] ELSE @]
        /\ fields' = [o \in DOMAIN fields |->
                         IF o = dest /\ moved THEN fields[object]
                         ELSE [i \in DOMAIN fields[o] |->
                                  IF i > 1 THEN move(fields[o][i])
                                  ELSE fields[o][i]]]
        /\ bits' = IF moved
                   THEN [bits EXCEPT ![dest] = bits[object],
                                     ![dest + 1] = bits[object + 1]]
                   ELSE bits
        /\ roots' = IF outcome = "dead" THEN roots \ {object}
                    ELSE {move(r) : r \in roots}
        /\ last' = [op |-> "Scavenge"]
        /\ UNCHANGED << ctlVars, progress_bar, worklist, bailout,
                        recorded_slots, unscanned_bytes_of_large_object,
                        collabVars, buildVars, retainVars, frame, stores >>

\* a callback that keeps the one-word fillers of old space
UpdateCallback_KeepsFillers(obj) ==
    IF InFromSpace(obj)
    THEN forwarding[obj]
    ELSE IF InToSpace(obj)
    THEN IF external_bits[obj] = "grey" THEN obj ELSE NULL
    ELSE IF sweep_to_iterate[obj]
    THEN IF external_bits[obj] = "grey" THEN obj ELSE NULL
    ELSE obj

\* a callback that keeps every entry as it is
UpdateCallback_KeepsEntry(obj) == obj

\* the callback UpdateMarkingWorklistAfterScavenge hands to Update: the entry
\* that replaces obj, NULL if the entry is dropped
UpdateCallback(obj) ==
    IF InFromSpace(obj)
    THEN forwarding[obj]
    ELSE IF InToSpace(obj)
    THEN IF external_bits[obj] = "grey" THEN obj ELSE NULL
    ELSE IF sweep_to_iterate[obj]
    THEN IF external_bits[obj] = "grey" THEN obj ELSE NULL
    ELSE IF kind[obj] # "one_pointer_filler" THEN obj ELSE NULL

\* MarkingWorklist::Update(callback) on one of its worklists: the entries are
\* replaced or dropped in place
RECURSIVE Update(_)
Update(wl) ==
    IF wl = << >> THEN << >>
    ELSE LET out == UpdateCallback(Head(wl))
         IN  IF out = NULL THEN Update(Tail(wl))
             ELSE << out >> \o Update(Tail(wl))

\* IncrementalMarking::UpdateMarkingWorklistAfterScavenge, at the end of a
\* scavenge
UpdateMarkingWorklistAfterScavenge ==
    /\ pc = "scavenged"
    /\ pc' = "idle"
    /\ IF ~IsMarking
       THEN UNCHANGED << worklist, bailout >>
       ELSE /\ worklist' = Update(worklist)
            /\ bailout' = Update(bailout)
    /\ last' = [op |-> "UpdateMarkingWorklistAfterScavenge",
                worklist |-> worklist, bailout |-> bailout]
    /\ UNCHANGED << ctlVars, bits, progress_bar, recorded_slots,
                    unscanned_bytes_of_large_object, heapVars, collabVars,
                    buildVars, scavVars, frame, stores >>

-----------------------------------------------------------------------------
(* Step, the drain loop of ProcessMarkingWorklist, Hurry *)

\* a FinalizeSweeping that starts marking whatever the sweeper is doing
FinalizeSweeping_IgnoresSweeper(sweeping_in_progress, may_complete, compaction, serializer_enabled) ==
    StartMarking(compaction, serializer_enabled)

\* IncrementalMarking::FinalizeSweeping; sweeping_in_progress is what the
\* collector reports on entry, may_complete is
\* !FLAG_concurrent_sweeping || !sweeper().AreSweeperTasksRunning()
FinalizeSweeping(sweeping_in_progress, may_complete, compaction, serializer_enabled) ==
    LET still_sweeping == sweeping_in_progress /\ ~may_complete IN
    /\ IF ~still_sweeping
       THEN StartMarking(compaction, serializer_enabled)
       ELSE UNCHANGED << is_compacting, state, stub_mode, barrier_active,
                         black_allocation, markVars >>

\* the head of IncrementalMarking::Step, up to the call of
\* ProcessMarkingWorklist(bytes_to_process); a Step that finds the state
\* SWEEPING asks the collector and the isolate, one that does not asks nothing;
\* requested is the step size the caller had computed before it was capped
StepEnter(caller, requested, bytes_to_process, action, completion, origin) ==
    /\ Idle
    /\ ~IsStopped
    /\ \E sweeping, may_complete, compaction, serializer \in BOOLEAN :
           /\ IF state = "SWEEPING"
              THEN FinalizeSweeping(sweeping, may_complete, compaction,
                                    serializer)
              ELSE /\ ~sweeping /\ ~may_complete /\ ~compaction /\ ~serializer
                   /\ UNCHANGED << is_compacting, state, stub_mode,
                                   barrier_active, black_allocation, markVars >>
           /\ IF state' = "MARKING"
              THEN /\ pc' = "drain"
                   /\ frame' = [caller |-> caller, requested |-> requested,
                                bytes_to_process |-> bytes_to_process,
                                action |-> action, completion |-> completion,
                                origin |-> origin, force |-> FALSE,
                                bytes_processed |-> 0, entered |-> state,
                                sweeping_in_progress |-> sweeping /\ ~may_complete,
                                serializer_enabled |-> serializer]
                   /\ last' = [op |-> "ProcessMarkingWorklist"]
              ELSE /\ pc' = "idle"
                   /\ frame' = NoFrame
                   /\ last' = [op |-> "Step", entered |-> state,
                               bytes_processed |-> 0, caller |-> caller,
                               requested |-> requested,
                               bytes_to_process |-> bytes_to_process,
                               sweeping_in_progress |-> sweeping /\ ~may_complete,
                               serializer_enabled |-> serializer]

\* IncrementalMarking::Step called from AdvanceIncrementalMarking or a task
Step(bytes_to_process, action, completion, origin) ==
    /\ StepEnter("Step", bytes_to_process, bytes_to_process, action,
                 completion, origin)
    /\ origin = "kTask" => bytes_marked_ahead_of_schedule < MaxCredit
    /\ UNCHANGED << should_hurry, was_activated, finalize_marking_completed,
                    request_type, bytes_allocated,
                    bytes_marked_ahead_of_schedule, idle_marking_delay_counter,
                    incremental_marking_finalization_rounds, heapVars,
                    observers, gc_requested, buildVars,
                    scavVars, stores >>

\* an advance that leaves out the test against kAllocatedThreshold
AdvanceIncrementalMarkingOnAllocation_NoThreshold(allocated, make_progress, max_step_size) ==
    /\ Idle
    /\ state \in {"SWEEPING", "MARKING"}
    /\ bytes_allocated + allocated <= MaxCredit
    /\ LET keep_up == bytes_allocated + allocated
           bytes_to_process == Min(keep_up + make_progress, max_step_size)
       IN  IF FALSE
           THEN /\ bytes_allocated' = keep_up
                /\ last' = [op |-> "AdvanceIncrementalMarkingOnAllocation",
                            requested |-> keep_up + make_progress,
                            bytes_to_process |-> bytes_to_process]
                /\ UNCHANGED << state, is_compacting, black_allocation,
                                bytes_marked_ahead_of_schedule, markVars,
                                stub_mode, barrier_active, pc, frame >>
           ELSE IF bytes_marked_ahead_of_schedule >= bytes_to_process
           THEN /\ bytes_marked_ahead_of_schedule' =
                       bytes_marked_ahead_of_schedule - bytes_to_process
                /\ bytes_allocated' = keep_up - Min(keep_up, bytes_to_process)
                /\ last' = [op |-> "AdvanceIncrementalMarkingOnAllocation",
                            requested |-> keep_up + make_progress,
                            bytes_to_process |-> bytes_to_process]
                /\ UNCHANGED << state, is_compacting, black_allocation,
                                markVars, stub_mode, barrier_active, pc,
                                frame >>
           ELSE /\ bytes_allocated' = keep_up
                /\ StepEnter("AdvanceIncrementalMarkingOnAllocation",
                             keep_up + make_progress, bytes_to_process,
                             "GC_VIA_STACK_GUARD", "FORCE_COMPLETION", "kV8")
                /\ UNCHANGED bytes_marked_ahead_of_schedule
    /\ UNCHANGED << should_hurry, was_activated, finalize_marking_completed,
                    request_type, idle_marking_delay_counter,
                    incremental_marking_finalization_rounds, heapVars,
                    observers, gc_requested, buildVars, scavVars, stores >>

\* IncrementalMarking::AdvanceIncrementalMarkingOnAllocation, called by the
\* allocation observers; allocated is the growth of the old-generation
\* allocation counter since the last call, make_progress is what
\* StepSizeToMakeProgress() answers, max_step_size is the cap of the step
AdvanceIncrementalMarkingOnAllocation(allocated, make_progress, max_step_size) ==
    /\ Idle
    /\ state \in {"SWEEPING", "MARKING"}
    /\ bytes_allocated + allocated <= MaxCredit
    /\ LET keep_up == bytes_allocated + allocated
           bytes_to_process == Min(keep_up + make_progress, max_step_size)
       IN  IF keep_up + make_progress < kAllocatedThreshold
           THEN /\ bytes_allocated' = keep_up
                /\ last' = [op |-> "AdvanceIncrementalMarkingOnAllocation",
                            requested |-> keep_up + make_progress,
                            bytes_to_process |-> bytes_to_process]
                /\ UNCHANGED << state, is_compacting, black_allocation,
                                bytes_marked_ahead_of_schedule, markVars,
                                stub_mode, barrier_active, pc, frame >>
           ELSE IF bytes_marked_ahead_of_schedule >= bytes_to_process
           THEN /\ bytes_marked_ahead_of_schedule' =
                       bytes_marked_ahead_of_schedule - bytes_to_process
                /\ bytes_allocated' = keep_up - Min(keep_up, bytes_to_process)
                /\ last' = [op |-> "AdvanceIncrementalMarkingOnAllocation",
                            requested |-> keep_up + make_progress,
                            bytes_to_process |-> bytes_to_process]
                /\ UNCHANGED << state, is_compacting, black_allocation,
                                markVars, stub_mode, barrier_active, pc,
                                frame >>
           ELSE /\ bytes_allocated' = keep_up
                /\ StepEnter("AdvanceIncrementalMarkingOnAllocation",
                             keep_up + make_progress, bytes_to_process,
                             "GC_VIA_STACK_GUARD", "FORCE_COMPLETION", "kV8")
                /\ UNCHANGED bytes_marked_ahead_of_schedule
    /\ UNCHANGED << should_hurry, was_activated, finalize_marking_completed,
                    request_type, idle_marking_delay_counter,
                    incremental_marking_finalization_rounds, heapVars,
                    observers, gc_requested, buildVars, scavVars, stores >>

\* MarkingWorklist::Pop: the bailout worklist is drained first in a
\* V8_CONCURRENT_MARKING build
PopFromBailout == V8_CONCURRENT_MARKING /\ bailout # << >>

PopResult ==
    IF PopFromBailout THEN bailout[Len(bailout)]
    ELSE IF worklist # << >> THEN worklist[Len(worklist)]
    ELSE NULL

AfterPop(m) ==
    IF PopFromBailout
    THEN [m EXCEPT !.bailout = SubSeq(@, 1, Len(@) - 1)]
    ELSE [m EXCEPT !.worklist = SubSeq(@, 1, Len(@) - 1)]

\* the loop condition of ProcessMarkingWorklist together with the null check
DrainContinues ==
    /\ frame.bytes_processed < frame.bytes_to_process \/ frame.force
    /\ PopResult # NULL

\* one iteration of the while loop of IncrementalMarking::ProcessMarkingWorklist
ProcessMarkingWorklistIteration ==
    /\ pc = "drain"
    /\ DrainContinues
    /\ LET obj == PopResult
           m0 == AfterPop(Marking)
       IN  IF IsFiller(obj)
           THEN /\ SetMarking(m0)
                /\ UNCHANGED frame
           ELSE LET size == SizeFromMap(obj)
                    m1 == VisitObject([m0 EXCEPT !.unscanned = 0], obj)
                IN  /\ SetMarking(m1)
                    /\ frame' = [frame EXCEPT !.bytes_processed =
                                                  @ + size - m1.unscanned]
    /\ last' = [op |-> "ProcessMarkingWorklist"]
    /\ UNCHANGED << ctlVars, heapVars, collabVars, buildVars, scavVars, pc,
                    stores >>

\* IncrementalMarking::FinalizeMarking
FinalizeMarking(action) ==
    /\ request_type' = "FINALIZATION"
    /\ gc_requested' = (gc_requested \/ action = "GC_VIA_STACK_GUARD")
    /\ UNCHANGED << state, should_hurry >>

\* IncrementalMarking::MarkingComplete
MarkingComplete(action) ==
    /\ state' = "COMPLETE"
    /\ should_hurry' = TRUE
    /\ request_type' = "COMPLETE_MARKING"
    /\ gc_requested' = (gc_requested \/ action = "GC_VIA_STACK_GUARD")

\* a limit that counts as reached from the start
IsIdleMarkingDelayCounterLimitReached_Always == TRUE

\* a limit that counts as reached when the counter equals it
IsIdleMarkingDelayCounterLimitReached_AtLimit ==
    idle_marking_delay_counter >= kMaxIdleMarkingDelayCounter

IsIdleMarkingDelayCounterLimitReached ==
    idle_marking_delay_counter > kMaxIdleMarkingDelayCounter

\* IncrementalMarking::ClearIdleMarkingDelayCounter
ClearIdleMarkingDelayCounter ==
    /\ Idle
    /\ idle_marking_delay_counter' = 0
    /\ last' = [op |-> "ClearIdleMarkingDelayCounter"]
    /\ UNCHANGED << state, is_compacting, should_hurry, was_activated,
                    black_allocation, finalize_marking_completed, request_type,
                    bytes_allocated, bytes_marked_ahead_of_schedule,
                    incremental_marking_finalization_rounds, markVars, heapVars,
                    collabVars, buildVars, scavVars, pc, frame, stores >>

\* the part of IncrementalMarking::Step after ProcessMarkingWorklist returned;
\* should_finalize is what ShouldFinalizeIncrementalMarking() answers
StepTail(should_finalize) ==
    /\ bytes_marked_ahead_of_schedule' =
           IF frame.origin = "kTask"
           THEN bytes_marked_ahead_of_schedule + frame.bytes_processed
           ELSE bytes_marked_ahead_of_schedule
    /\ IF WorklistIsEmpty(worklist, bailout) /\ should_finalize
       THEN IF frame.completion = "FORCE_COMPLETION"
               \/ IsIdleMarkingDelayCounterLimitReached
            THEN /\ IF ~finalize_marking_completed
                    THEN FinalizeMarking(frame.action)
                    ELSE MarkingComplete(frame.action)
                 /\ UNCHANGED idle_marking_delay_counter
            ELSE /\ idle_marking_delay_counter' = idle_marking_delay_counter + 1
                 /\ UNCHANGED << state, should_hurry, request_type,
                                 gc_requested >>
       ELSE UNCHANGED << state, should_hurry, request_type, gc_requested,
                         idle_marking_delay_counter >>

\* ProcessMarkingWorklist returns to Step, and Step returns; when the caller is
\* AdvanceIncrementalMarkingOnAllocation, that one takes the processed bytes
\* off bytes_allocated and returns as well
StepReturn ==
    /\ pc = "drain"
    /\ frame.caller \in {"Step", "AdvanceIncrementalMarkingOnAllocation"}
    /\ ~DrainContinues
    /\ \E should_finalize \in BOOLEAN :
           /\ StepTail(should_finalize)
           /\ last' = [op |-> "Step", entered |-> frame.entered,
                       bytes_processed |-> frame.bytes_processed,
                       action |-> frame.action, completion |-> frame.completion,
                       should_finalize |-> should_finalize,
                       was_empty |-> WorklistIsEmpty(worklist, bailout),
                       limit_reached |-> IsIdleMarkingDelayCounterLimitReached]
    /\ bytes_allocated' =
           IF frame.caller = "AdvanceIncrementalMarkingOnAllocation"
           THEN bytes_allocated - Min(bytes_allocated, frame.bytes_processed)
           ELSE bytes_allocated
    /\ pc' = "idle"
    /\ frame' = NoFrame
    /\ UNCHANGED << is_compacting, was_activated, black_allocation,
                    finalize_marking_completed,
                    incremental_marking_finalization_rounds, markVars, heapVars,
                    observers, stub_mode, barrier_active, buildVars,
                    scavVars, stores >>

\* Heap::native_contexts_list(), followed through next_context_link: every
\* native context of the heap
NativeContexts == {o \in DOMAIN kind : kind[o] = "native_context"}

\* the normalized-map caches of the native contexts that are not undefined
NormalizedMapCaches ==
    {FieldAt(c, NORMALIZED_MAP_CACHE_INDEX) : c \in NativeContexts} \ {NULL}

\* a walk of the native contexts that leaves their caches as they are
MarkCachesBlack_Skipped(b) == b

\* the loop at the end of IncrementalMarking::Hurry: GreyToBlack on the cache
\* of every native context
MarkCachesBlack(b) ==
    [a \in DOMAIN b |->
        b[a] \/ \E cache \in NormalizedMapCaches :
                    a = cache + 1 /\ CanGreyToBlack(b, cache)]

\* IncrementalMarking::Hurry up to ProcessMarkingWorklist(0, FORCE_COMPLETION);
\* with an empty worklist it goes on to the caches and returns
HurryEnter ==
    /\ Idle
    /\ IsMarking \/ IsComplete
    /\ IF ~WorklistIsEmpty(worklist, bailout)
       THEN /\ pc' = "drain"
            /\ frame' = [caller |-> "Hurry", bytes_to_process |-> 0,
                         force |-> TRUE, bytes_processed |-> 0,
                         entered |-> state]
            /\ last' = [op |-> "ProcessMarkingWorklist"]
            /\ UNCHANGED bits
       ELSE /\ UNCHANGED << pc, frame >>
            /\ bits' = MarkCachesBlack(bits)
            /\ last' = [op |-> "Hurry", was_empty |-> TRUE,
                        entered |-> state]
    /\ UNCHANGED << ctlVars, progress_bar, worklist, bailout, recorded_slots,
                    unscanned_bytes_of_large_object, heapVars, collabVars,
                    buildVars, scavVars, stores >>

\* ProcessMarkingWorklist returns to Hurry, which sets COMPLETE, blackens the
\* caches and returns
HurryReturn ==
    /\ pc = "drain"
    /\ frame.caller = "Hurry"
    /\ ~DrainContinues
    /\ state' = "COMPLETE"
    /\ bits' = MarkCachesBlack(bits)
    /\ pc' = "idle"
    /\ frame' = NoFrame
    /\ last' = [op |-> "Hurry", was_empty |-> FALSE, entered |-> frame.entered]
    /\ UNCHANGED << is_compacting, should_hurry, was_activated,
                    black_allocation, finalize_marking_completed, request_type,
                    bytes_allocated, bytes_marked_ahead_of_schedule,
                    idle_marking_delay_counter,
                    incremental_marking_finalization_rounds, progress_bar,
                    worklist, bailout, recorded_slots,
                    unscanned_bytes_of_large_object, heapVars,
                    collabVars, buildVars, scavVars, stores >>

-----------------------------------------------------------------------------
(* Map retaining *)

FLAG_retain_maps_for_n_gc == 2

\* Map::prototype(), the second word of a map that has one
Prototype(map) == IF Len(fields[map]) >= 2 THEN fields[map][2] ELSE NULL

\* Map::GetConstructor(), the third word of a map that has one
GetConstructor(map) == IF Len(fields[map]) >= 3 THEN fields[map][3] ELSE NULL

\* ShouldRetainMap(map, age)
ShouldRetainMap(b, map, age) ==
    /\ age # 0
    /\ GetConstructor(map) # NULL
    /\ ~IsWhite(b, GetConstructor(map))

\* a loop that ages the entries of disposed contexts as well
RetainMapsFrom_AgesDisposed(r, i, map_retaining_is_disabled) ==
    IF i >= Len(r.retained_maps) THEN r
    ELSE [r EXCEPT !.retained_maps =
              [k \in DOMAIN @ |->
                  IF k % 2 = 0 /\ @[k] > 0 /\ @[k - 1] # NULL
                  THEN @[k] - 1 ELSE @[k]]]

\* the loop of RetainMaps from index i of the list on; r holds the marking
\* data and the list
RECURSIVE RetainMapsFrom(_, _, _)
RetainMapsFrom(r, i, map_retaining_is_disabled) ==
    IF i >= Len(r.retained_maps) THEN r
    ELSE LET map == r.retained_maps[i + 1]
             age == r.retained_maps[i + 2]
             white == /\ i >= number_of_disposed_maps
                      /\ ~map_retaining_is_disabled
                      /\ IsWhite(r.m.bits, map)
             m1 == IF white /\ ShouldRetainMap(r.m.bits, map, age)
                   THEN WhiteToGreyAndPush(r.m, map)
                   ELSE r.m
             prototype == Prototype(map)
             new_age == IF white
                        THEN IF /\ age > 0
                                /\ prototype # NULL
                                /\ IsWhite(m1.bits, prototype)
                             THEN age - 1
                             ELSE age
                        ELSE FLAG_retain_maps_for_n_gc
         IN  IF map = NULL
             THEN RetainMapsFrom(r, i + 2, map_retaining_is_disabled)
             ELSE RetainMapsFrom(
                      [m |-> m1,
                       retained_maps |->
                           [r.retained_maps EXCEPT ![i + 2] = new_age]],
                      i + 2, map_retaining_is_disabled)

\* IncrementalMarking::RetainMaps; reduce_memory is Heap::ShouldReduceMemory()
RetainMaps(m, reduce_memory) ==
    RetainMapsFrom([m |-> m, retained_maps |-> retained_maps], 0,
                   reduce_memory \/ abort_incremental_marking
                       \/ FLAG_retain_maps_for_n_gc = 0)

-----------------------------------------------------------------------------
(* Finalization *)

\* a finalization that allows one round more than the flag says
FinalizeIncrementally_OneRoundMore(cached_wrappers, reduce_memory) ==
    /\ Idle
    /\ IsMarking
    /\ ~finalize_marking_completed
    /\ LET r == IF incremental_marking_finalization_rounds = 0
                THEN RetainMaps(MarkRootSet(Marking, roots), reduce_memory)
                ELSE [m |-> MarkRootSet(Marking, roots),
                      retained_maps |-> retained_maps]
           m == r.m
           marking_progress ==
               MarkingWorklistSize(m.worklist, m.bailout) + cached_wrappers
           rounds == incremental_marking_finalization_rounds + 1
       IN  /\ SetMarking(IF ~reduce_memory /\ ~black_allocation
                         THEN StartBlackAllocation(m) ELSE m)
           /\ retained_maps' = r.retained_maps
           /\ incremental_marking_finalization_rounds' = rounds
           /\ finalize_marking_completed' =
                  (rounds > FLAG_max_incremental_marking_finalization_rounds
                   \/ marking_progress <
                          FLAG_min_progress_during_incremental_marking_finalization)
           /\ last' = [op |-> "FinalizeIncrementally",
                       marking_progress |-> marking_progress,
                       cached_wrappers |-> cached_wrappers,
                       reduce_memory |-> reduce_memory,
                       retained_maps |-> retained_maps]
    /\ black_allocation' = (black_allocation \/ ~reduce_memory)
    /\ UNCHANGED << state, is_compacting, should_hurry, was_activated,
                    request_type, bytes_allocated,
                    bytes_marked_ahead_of_schedule, idle_marking_delay_counter,
                    kind, fields, roots, number_of_disposed_maps,
                    abort_incremental_marking, collabVars, buildVars,
                    scavVars, pc, frame, stores >>

\* IncrementalMarking::FinalizeIncrementally; cached_wrappers is
\* NumberOfCachedWrappersToTrace(), reduce_memory is Heap::ShouldReduceMemory()
FinalizeIncrementally(cached_wrappers, reduce_memory) ==
    /\ Idle
    /\ IsMarking
    /\ ~finalize_marking_completed
    /\ LET r == IF incremental_marking_finalization_rounds = 0
                THEN RetainMaps(MarkRootSet(Marking, roots), reduce_memory)
                ELSE [m |-> MarkRootSet(Marking, roots),
                      retained_maps |-> retained_maps]
           m == r.m
           marking_progress ==
               MarkingWorklistSize(m.worklist, m.bailout) + cached_wrappers
           rounds == incremental_marking_finalization_rounds + 1
       IN  /\ SetMarking(IF ~reduce_memory /\ ~black_allocation
                         THEN StartBlackAllocation(m) ELSE m)
           /\ retained_maps' = r.retained_maps
           /\ incremental_marking_finalization_rounds' = rounds
           /\ finalize_marking_completed' =
                  (rounds >= FLAG_max_incremental_marking_finalization_rounds
                   \/ marking_progress <
                          FLAG_min_progress_during_incremental_marking_finalization)
           /\ last' = [op |-> "FinalizeIncrementally",
                       marking_progress |-> marking_progress,
                       cached_wrappers |-> cached_wrappers,
                       reduce_memory |-> reduce_memory,
                       retained_maps |-> retained_maps]
    /\ black_allocation' = (black_allocation \/ ~reduce_memory)
    /\ UNCHANGED << state, is_compacting, should_hurry, was_activated,
                    request_type, bytes_allocated,
                    bytes_marked_ahead_of_schedule, idle_marking_delay_counter,
                    kind, fields, roots, number_of_disposed_maps,
                    abort_incremental_marking, collabVars, buildVars,
                    scavVars, pc, frame, stores >>

\* an Epilogue that leaves the round counter as it is
Epilogue_KeepsRounds ==
    /\ Idle
    /\ IsStopped
    /\ was_activated' = FALSE
    /\ finalize_marking_completed' = FALSE
    /\ last' = [op |-> "Epilogue"]
    /\ UNCHANGED << state, is_compacting, should_hurry, black_allocation,
                    request_type, bytes_allocated,
                    bytes_marked_ahead_of_schedule, idle_marking_delay_counter,
                    incremental_marking_finalization_rounds,
                    markVars, heapVars, collabVars, buildVars,
                    scavVars, pc, frame, stores >>

\* IncrementalMarking::Epilogue
Epilogue ==
    /\ Idle
    /\ IsStopped
    /\ was_activated' = FALSE
    /\ finalize_marking_completed' = FALSE
    /\ incremental_marking_finalization_rounds' = 0
    /\ last' = [op |-> "Epilogue"]
    /\ UNCHANGED << state, is_compacting, should_hurry, black_allocation,
                    request_type, bytes_allocated,
                    bytes_marked_ahead_of_schedule, idle_marking_delay_counter,
                    markVars, heapVars, collabVars, buildVars,
                    scavVars, pc, frame, stores >>

-----------------------------------------------------------------------------
(* The environment of the controller *)

\* between two cycles the full collector finishes: the sweeper clears the
\* marking bits and the progress bars of the large pages
ClearMarkbits ==
    /\ Idle
    /\ IsStopped
    /\ ~MarkbitsAreClean
    /\ bits' = [a \in DOMAIN bits |-> FALSE]
    /\ progress_bar' = [o \in DOMAIN progress_bar |-> 0]
    /\ last' = [op |-> "ClearMarkbits"]
    /\ UNCHANGED << ctlVars, worklist, bailout, recorded_slots,
                    unscanned_bytes_of_large_object, heapVars, collabVars,
                    buildVars, scavVars, pc, frame, stores >>

-----------------------------------------------------------------------------
(* The marking specification: a heap of a map, two objects that point at   *)
(* each other, a code object and a large array on a progress-bar page      *)

InitController ==
    /\ state = "STOPPED"
    /\ is_compacting = FALSE
    /\ should_hurry = FALSE
    /\ was_activated = FALSE
    /\ black_allocation = FALSE
    /\ finalize_marking_completed = FALSE
    /\ request_type = "NONE"
    /\ bytes_allocated = 0
    /\ bytes_marked_ahead_of_schedule = 0
    /\ idle_marking_delay_counter = 0
    /\ incremental_marking_finalization_rounds = 0
    /\ unscanned_bytes_of_large_object = 0
    /\ worklist = << >>
    /\ bailout = << >>
    /\ recorded_slots = {}
    /\ observers = FALSE
    /\ stub_mode = << "STORE_BUFFER_ONLY" >>
    /\ barrier_active = FALSE
    /\ gc_requested = FALSE
    /\ pc = "idle"
    /\ frame = NoFrame
    /\ last = [op |-> "IncrementalMarking"]
    /\ stores = 0

\* a heap that retains no map
InitNoRetainedMaps ==
    /\ retained_maps = << >>
    /\ number_of_disposed_maps = 0
    /\ abort_incremental_marking = FALSE

InitBuild ==
    /\ V8_CONCURRENT_MARKING \in BOOLEAN
    /\ FLAG_concurrent_marking \in BOOLEAN
    /\ FLAG_concurrent_marking => V8_CONCURRENT_MARKING

\* the map at 1, an object at 3, a code object at 5 that nothing points at
\* and, on a progress-bar page, a large array at 7 whose last slot points at
\* the object; the array is a root, the object may be one
InitHeap ==
    /\ InitNoRetainedMaps
    /\ kind = << "map", "none", "object", "none", "code", "none", "array",
                 "none" >>
    /\ fields = << <<1>>, << >>, <<1, NULL>>, << >>, <<1, NULL>>, << >>,
                   <<1, NULL, NULL, 3>>, << >> >>
    /\ bits = [a \in 1..8 |-> FALSE]
    /\ progress_bar = [o \in {7} |-> 0]
    /\ roots \in {{7}, {3, 7}}

InitNoScavenge ==
    /\ space = [a \in DOMAIN kind |-> "old"]
    /\ forwarding = [a \in DOMAIN kind |-> NULL]
    /\ sweep_to_iterate = [a \in DOMAIN kind |-> FALSE]
    /\ external_bits = [a \in DOMAIN kind |-> "white"]

Init == InitController /\ InitBuild /\ InitHeap /\ InitNoScavenge

StepSizes == {kProgressBarScanningChunk, 2 * WorklistCapacity + 10}

CompletionActions == {"GC_VIA_STACK_GUARD", "NO_GC_VIA_STACK_GUARD"}

ForceCompletionActions == {"FORCE_COMPLETION", "DO_NOT_FORCE_COMPLETION"}

\* the values a mutator store writes: no heap object, or an ordinary object
StoreValues == {NULL} \cup {o \in Objects : kind[o] \in {"object", "code"}}

\* the mutator: stores through the write barrier and code-target patches
Mutator ==
    \/ \E host \in Hosts, value \in StoreValues, has_slot \in BOOLEAN :
           \E offset \in kStartOffset .. (SizeFromMap(host) - 1) :
               RecordWrite(host, offset, value, has_slot)
    \/ \E host \in CodeHosts, value \in StoreValues \ {NULL} :
           RecordCodeTargetPatch(host, value)

Next ==
    \/ \E sweeping \in BOOLEAN : Start(sweeping)
    \/ Mutator
    \/ \E b \in StepSizes :
           Step(b, "GC_VIA_STACK_GUARD", "FORCE_COMPLETION", "kV8")
    \/ ProcessMarkingWorklistIteration
    \/ StepReturn
    \/ FinalizeIncrementally(0, FALSE)

Spec == Init /\ [][Next]_vars

-----------------------------------------------------------------------------
(* Properties of the marking specification *)

BodyOffsets(o) == kStartOffset .. (SizeFromMap(o) - 1)

\* the body slot at offset k of the Black object o refers to a White object
BlackToWhite(o, k) ==
    /\ IsBlack(bits, o)
    /\ FieldAt(o, k) # NULL
    /\ IsWhite(bits, FieldAt(o, k))

OnWorklist(o) ==
    \/ \E i \in DOMAIN worklist : worklist[i] = o
    \/ \E i \in DOMAIN bailout : bailout[i] = o

AfterStep == Idle /\ last.op = "Step"

BarrierOps == {"RecordWriteSlow", "RecordWriteIntoCodeSlow"}

\* C1 as stated: in non-concurrent mode, after any Step returns no Black
\* object has a pointer field that refers to a White object, a partly scanned
\* progress-bar array included.
C1_StrongTriColor ==
    (AfterStep /\ ~FLAG_concurrent_marking) =>
        \A o \in Objects : \A k \in BodyOffsets(o) : ~BlackToWhite(o, k)

\* C1 amended: in non-concurrent mode, after any Step returns every pointer
\* from a Black object to a White object sits at or beyond the progress bar of
\* a progress-bar array that is still on the worklist.
C1_TriColorUpToProgressBar ==
    (AfterStep /\ ~FLAG_concurrent_marking) =>
        \A o \in Objects : \A k \in BodyOffsets(o) :
            BlackToWhite(o, k) =>
                /\ IsFixedArrayWithProgressBar(progress_bar, o)
                /\ k >= progress_bar[o]
                /\ OnWorklist(o)

\* a Step has returned with the array Black, its scan incomplete, a scanned
\* slot that refers to a marked object and an unscanned slot that refers to a
\* White one
C1_Witness ==
    /\ AfterStep
    /\ ~FLAG_concurrent_marking
    /\ \E o \in Objects :
           /\ IsFixedArrayWithProgressBar(progress_bar, o)
           /\ IsBlack(bits, o)
           /\ OnWorklist(o)
           /\ \E k \in BodyOffsets(o) :
                  k < progress_bar[o] /\ FieldAt(o, k) # NULL
                  /\ ~IsWhite(bits, FieldAt(o, k))
           /\ \E k \in BodyOffsets(o) : k >= progress_bar[o] /\ BlackToWhite(o, k)

\* C2 as stated: after the barrier of a store made while marking, for every
\* host colour and in both modes, the stored value is not White unless the
\* store left the slot unchanged.
C2_BarrierCompleteness ==
    last.op \in BarrierOps =>
        (~IsWhite(bits, last.value) \/ last.old = last.value)

\* C2 amended: when concurrent marking is on or the host is Black, the stored
\* value is not White when the barrier returns, unless the store left the
\* slot unchanged.
C2_BarrierCompletenessBlackHost ==
    [][(last'.op \in BarrierOps
        /\ (FLAG_concurrent_marking \/ IsBlack(bits, last'.host)))
       => (~IsWhite(bits', last'.value) \/ last'.old = last'.value)]_vars

\* the barrier has returned from a store of a new value into a Black host and
\* the value, just pushed, is Grey
C2_Witness ==
    /\ last.op = "RecordWriteSlow"
    /\ ~FLAG_concurrent_marking
    /\ IsBlack(bits, last.host)
    /\ last.old # last.value
    /\ IsGrey(bits, last.value)
    /\ worklist # << >>
    /\ worklist[Len(worklist)] = last.value

\* C3 as stated: the barrier turns the value from White to Grey and pushes it
\* exactly when the value is White and (concurrent marking is on or the host
\* is Black); otherwise the mark bits and the worklist are unchanged.
C3_GreyAndPushExactly ==
    [][last'.op \in BarrierOps =>
          IF IsWhite(bits, last'.value)
             /\ (FLAG_concurrent_marking \/ IsBlack(bits, last'.host))
          THEN /\ IsGrey(bits', last'.value)
               /\ worklist' = Append(worklist, last'.value)
               /\ bailout' = bailout
          ELSE /\ bits' = bits
               /\ worklist' = worklist
               /\ bailout' = bailout]_vars

\* C3 amended: as C3, but the push is dropped when the worklist is full; the
\* value is then Grey and not on the worklist.
C3_GreyAndPushUnlessFull ==
    [][last'.op \in BarrierOps =>
          IF IsWhite(bits, last'.value)
             /\ (FLAG_concurrent_marking \/ IsBlack(bits, last'.host))
          THEN /\ IsGrey(bits', last'.value)
               /\ worklist' = IF IsFull(worklist) THEN worklist
                              ELSE Append(worklist, last'.value)
               /\ bailout' = bailout
          ELSE /\ bits' = bits
               /\ worklist' = worklist
               /\ bailout' = bailout]_vars

\* the barrier has returned from a store into a Black host with the worklist
\* full: the value is Grey and is not on the worklist
C3_Witness ==
    /\ last.op \in BarrierOps
    /\ IsBlack(bits, last.host)
    /\ IsGrey(bits, last.value)
    /\ IsFull(worklist)
    /\ ~OnWorklist(last.value)

\* C4: RecordWriteSlow registers the slot iff is_compacting, need_recording
\* and a non-null slot, whatever the colour of the value; and
\* RecordWriteIntoCodeSlow registers the relocation slot iff is_compacting and
\* need_recording.
C4_SlotRecording ==
    [][last'.op \in BarrierOps =>
          LET need_recording ==
                  FLAG_concurrent_marking \/ IsBlack(bits, last'.host)
              expected ==
                  IF last'.op = "RecordWriteSlow"
                  THEN is_compacting /\ need_recording /\ last'.has_slot
                  ELSE is_compacting /\ need_recording
          IN  /\ last'.registered = expected
              /\ recorded_slots' =
                     IF expected
                     THEN recorded_slots \cup {<<last'.host, last'.offset>>}
                     ELSE recorded_slots]_vars

\* the barrier has registered the slot of a store of a value that was already
\* marked, into a slot no visit had recorded
C4_Witness ==
    /\ last.op = "RecordWriteSlow"
    /\ last.registered
    /\ is_compacting
    /\ IsBlack(bits, last.value)
    /\ <<last.host, last.offset>> \in recorded_slots

-----------------------------------------------------------------------------
(* The drain specification: Step is called again and again with a budget    *)
(* no drain can use up, and a call that has begun runs to its return        *)

UnboundedBudget == 2 * WorklistCapacity + 10

StepUnbounded ==
    Step(UnboundedBudget, "GC_VIA_STACK_GUARD", "FORCE_COMPLETION", "kV8")

\* the stores of the mutator before it comes to rest, each with its slot
\* address
MutatorStores ==
    \E host \in Hosts, value \in StoreValues :
        \E offset \in kStartOffset .. (SizeFromMap(host) - 1) :
            RecordWrite(host, offset, value, TRUE)

NextDrain ==
    \/ Start(FALSE)
    \/ MutatorStores
    \/ StepUnbounded
    \/ ProcessMarkingWorklistIteration
    \/ StepReturn

\* the caller keeps calling Step, and the code of a call keeps running
DrainProgress ==
    StepUnbounded \/ ProcessMarkingWorklistIteration \/ StepReturn

SpecDrain == Init /\ [][NextDrain]_vars /\ WF_vars(DrainProgress)

Count(seq, o) == Cardinality({i \in DOMAIN seq : seq[i] = o})

\* the step is an iteration of the drain loop and pops o
Pops(o) == pc = "drain" /\ DrainContinues /\ o = PopResult

\* the step pushes o onto the worklist or the bailout worklist
Pushed(o) ==
    Count(worklist', o) + Count(bailout', o) >
        Count(worklist, o) + Count(bailout, o) - (IF Pops(o) THEN 1 ELSE 0)

\* C5 as stated: from any MARKING state, with a mutator that comes to rest and
\* Step called again and again with an unbounded budget, the worklist becomes
\* empty; and no object that is Black is pushed again.
C5_DrainsAndNoBlackPush ==
    /\ (state = "MARKING") ~> WorklistIsEmpty(worklist, bailout)
    /\ [][\A o \in Objects : Pushed(o) => ~IsBlack(bits, o)]_vars

\* C5 amended: the worklist becomes empty all the same, and the only object
\* pushed while Black is the progress-bar array that the drain loop has just
\* popped with its progress bar short of its size.
C5_DrainsAndRepushesOnlyArray ==
    /\ (state = "MARKING") ~> WorklistIsEmpty(worklist, bailout)
    /\ [][\A o \in Objects :
              (Pushed(o) /\ IsBlack(bits, o)) =>
                  /\ Pops(o)
                  /\ IsFixedArrayWithProgressBar(progress_bar, o)
                  /\ progress_bar[o] < SizeFromMap(o)]_vars

\* a Step that began with the array on the worklist has returned in MARKING
\* with the worklist empty and the array Black and scanned to its end
C5_Witness ==
    /\ AfterStep
    /\ state = "MARKING"
    /\ last.bytes_processed > 0
    /\ WorklistIsEmpty(worklist, bailout)
    /\ \E o \in Objects :
           /\ IsFixedArrayWithProgressBar(progress_bar, o)
           /\ IsBlack(bits, o)
           /\ progress_bar[o] = SizeFromMap(o)

-----------------------------------------------------------------------------
(* The controller specification: whole cycles of Start, Step, finalization, *)
(* Hurry and Stop, with no mutator stores, on a heap of a map and two       *)
(* objects                                                                   *)

\* the map at 1, a root object at 3 that points at an object at 5
InitSmallHeap ==
    /\ InitNoRetainedMaps
    /\ kind = << "map", "none", "object", "none", "object", "none" >>
    /\ fields = << <<1>>, << >>, <<1, 5>>, << >>, <<1, NULL>>, << >> >>
    /\ bits = [a \in 1..6 |-> FALSE]
    /\ progress_bar = << >>
    /\ roots = {3}

InitCycles == InitController /\ InitBuild /\ InitSmallHeap /\ InitNoScavenge

NextController ==
    \/ \E sweeping \in BOOLEAN : Start(sweeping)
    \/ Stop
    \/ \E a \in CompletionActions, c \in ForceCompletionActions :
           Step(2 * WorklistCapacity + 10, a, c, "kV8")
    \/ Step(kProgressBarScanningChunk, "NO_GC_VIA_STACK_GUARD",
            "DO_NOT_FORCE_COMPLETION", "kTask")
    \/ \E allocated \in 1 .. kAllocatedThreshold :
           AdvanceIncrementalMarkingOnAllocation(allocated, 0,
                                                 kAllocatedThreshold)
    \/ ProcessMarkingWorklistIteration
    \/ StepReturn
    \/ HurryEnter
    \/ HurryReturn
    \/ \E cached_wrappers \in 0 .. 1, reduce_memory \in BOOLEAN :
           FinalizeIncrementally(cached_wrappers, reduce_memory)
    \/ ClearIdleMarkingDelayCounter
    \/ Epilogue
    \/ ClearMarkbits

SpecController == InitCycles /\ [][NextController]_vars

\* C6: Start called in STOPPED ends in SWEEPING if the collector reports
\* sweeping in progress and in MARKING otherwise; either way the allocation
\* observers are registered, bytes_allocated and
\* bytes_marked_ahead_of_schedule are 0, should_hurry is false and
\* was_activated is true.
C6_StartEffects ==
    [][(last'.op = "Start" /\ state = "STOPPED") =>
          /\ state' = IF last'.sweeping_in_progress THEN "SWEEPING"
                      ELSE "MARKING"
          /\ observers'
          /\ bytes_allocated' = 0
          /\ bytes_marked_ahead_of_schedule' = 0
          /\ ~should_hurry'
          /\ was_activated']_vars

\* Start has returned in MARKING, with the roots on the worklist, from a
\* state whose two byte counters were not 0
C6_Witness ==
    /\ last.op = "Start"
    /\ ~last.sweeping_in_progress
    /\ last.bytes_allocated > 0
    /\ last.bytes_marked_ahead_of_schedule > 0
    /\ state = "MARKING"
    /\ worklist # << >>
    /\ bytes_allocated = 0
    /\ bytes_marked_ahead_of_schedule = 0

\* the return of a Step that has drained the worklist in MARKING
StepReturns == pc = "drain" /\ last'.op = "Step"

\* what Step tests before it finalizes, in the state its drain has left
ReadyToFinalize ==
    /\ WorklistIsEmpty(worklist, bailout)
    /\ last'.should_finalize
    /\ \/ frame.completion = "FORCE_COMPLETION"
       \/ idle_marking_delay_counter > kMaxIdleMarkingDelayCounter

\* C7: Step moves the controller from MARKING to COMPLETE only when the
\* drained worklist is empty, the embedder is ready, (completion is
\* FORCE_COMPLETION or the idle delay limit is reached) and
\* finalize_marking_completed is true; with finalize_marking_completed false
\* it only sets request_type to FINALIZATION, requests a stack-guard GC iff
\* the action is GC_VIA_STACK_GUARD, and the state stays MARKING.
C7_StepCompletes ==
    [][StepReturns =>
          /\ (state = "MARKING" /\ state' = "COMPLETE") =>
                 (ReadyToFinalize /\ finalize_marking_completed)
          /\ (ReadyToFinalize /\ ~finalize_marking_completed) =>
                 /\ request_type' = "FINALIZATION"
                 /\ state' = "MARKING"
                 /\ gc_requested' =
                        (gc_requested \/ frame.action = "GC_VIA_STACK_GUARD")
                 /\ UNCHANGED << should_hurry, idle_marking_delay_counter,
                                 finalize_marking_completed, markVars >>]_vars

\* a Step that did not force completion has returned in COMPLETE, the idle
\* delay limit being reached, without a request to the stack guard
C7_Witness ==
    /\ last.op = "Step"
    /\ state = "COMPLETE"
    /\ last.entered = "MARKING"
    /\ last.completion = "DO_NOT_FORCE_COMPLETION"
    /\ last.action = "NO_GC_VIA_STACK_GUARD"
    /\ last.limit_reached
    /\ last.should_finalize
    /\ request_type = "COMPLETE_MARKING"
    /\ finalize_marking_completed

\* C8: Stop called in SWEEPING, MARKING or COMPLETE ends in STOPPED with
\* is_compacting, black_allocation and should_hurry false, the observers
\* detached, the stubs in STORE_BUFFER_ONLY mode and the stack-guard GC request
\* cleared, and leaves the worklist and every mark bit as they were; Stop
\* called in STOPPED changes nothing.
C8_StopEffects ==
    [][last'.op = "Stop" =>
          IF state # "STOPPED"
          THEN /\ state' = "STOPPED"
               /\ ~is_compacting'
               /\ ~black_allocation'
               /\ ~should_hurry'
               /\ ~observers'
               /\ StubsAre(stub_mode', "STORE_BUFFER_ONLY")
               /\ ~gc_requested'
               /\ UNCHANGED << worklist, bailout, bits >>
          ELSE UNCHANGED << ctlVars, markVars, heapVars, collabVars,
                            buildVars, scavVars, pc, frame, stores >>]_vars

\* Stop has returned from MARKING, where the cycle was compacting and black
\* allocation was on, with marked objects and a worklist that is not empty
C8_Witness ==
    /\ last.op = "Stop"
    /\ last.from = "MARKING"
    /\ last.is_compacting
    /\ last.black_allocation
    /\ state = "STOPPED"
    /\ worklist # << >>
    /\ ~MarkbitsAreClean
    /\ StubsAre(stub_mode, "STORE_BUFFER_ONLY")

-----------------------------------------------------------------------------
(* The mutator specification: a cycle in which the mutator trims an array   *)
(* in old space and the scavenger evacuates new space                        *)

\* the map at 1, in old space an array of five words at 3, which is there
\* from the start or is allocated later, and in new space a root object at 9;
\* the words from 11 on are free
InitMutatorHeap ==
    /\ InitNoRetainedMaps
    /\ \E present \in BOOLEAN :
           /\ kind = [a \in 1..12 |->
                         IF a = 1 THEN "map"
                         ELSE IF a = 3 /\ present THEN "array"
                         ELSE IF a = 9 THEN "object"
                         ELSE "none"]
           /\ fields = [a \in 1..12 |->
                           IF a = 1 THEN << 1 >>
                           ELSE IF a = 3 /\ present
                           THEN << 1, NULL, NULL, NULL, NULL >>
                           ELSE IF a = 9 THEN << 1, NULL >>
                           ELSE << >>]
           /\ roots = IF present THEN {3, 9} ELSE {9}
    /\ bits = [a \in 1..12 |-> FALSE]
    /\ progress_bar = << >>
    /\ space = [a \in 1..12 |-> IF a \in 9..12 THEN "to" ELSE "old"]
    /\ forwarding = [a \in 1..12 |-> NULL]
    /\ sweep_to_iterate = [a \in 1..12 |-> FALSE]
    /\ external_bits = [a \in 1..12 |-> "white"]

InitMutator == InitController /\ InitBuild /\ InitMutatorHeap

NextMutator ==
    \/ \E sweeping \in BOOLEAN : Start(sweeping)
    \/ Stop
    \/ StepUnbounded
    \/ ProcessMarkingWorklistIteration
    \/ StepReturn
    \/ \E reduce_memory \in BOOLEAN : FinalizeIncrementally(0, reduce_memory)
    \/ AllocateInBlackArea(3, 5)
    \/ \E object \in Trimmable, elements_to_trim \in 1..2 :
           LeftTrimFixedArray(object, elements_to_trim)
    \/ \E outcome \in ScavengeOutcomes, external \in {"white", "grey"} :
           Scavenge(9, 11, outcome, external)
    \/ UpdateMarkingWorklistAfterScavenge

SpecMutator == InitMutator /\ [][NextMutator]_vars

\* the step is a call of UpdateMarkingWorklistAfterScavenge
UpdateReturns == last'.op = "UpdateMarkingWorklistAfterScavenge"

\* no entry of the worklists after the step is in from-space, and for every
\* forwarding address there are at least as many entries after the step as
\* entries that referred to an object forwarded to it before
ScavengePreserved ==
    /\ \A i \in DOMAIN worklist' : ~InFromSpace(worklist'[i])
    /\ \A i \in DOMAIN bailout' : ~InFromSpace(bailout'[i])
    /\ \A o \in DOMAIN kind :
           (InFromSpace(o) /\ forwarding[o] # NULL) =>
               /\ Count(worklist', forwarding[o]) >= Count(worklist, o)
               /\ Count(bailout', forwarding[o]) >= Count(bailout, o)

\* C9 as stated: after any call of UpdateMarkingWorklistAfterScavenge no
\* worklist entry points into from-space, and every entry that referred to a
\* forwarded from-space object refers to its forwarding address.
C9_ScavengePreservation ==
    [][UpdateReturns => ScavengePreserved]_vars

\* C9 amended: the same, for the calls made while IsMarking() holds (state
\* MARKING or COMPLETE); a call made in another state leaves the worklist as
\* it is.
C9_ScavengePreservationWhileMarking ==
    [][UpdateReturns =>
          IF IsMarking THEN ScavengePreserved
          ELSE UNCHANGED << worklist, bailout >>]_vars

\* the update has returned while marking: the entry for the object in
\* from-space, which was on the worklist, is now its forwarding address
C9_Witness ==
    /\ last.op = "UpdateMarkingWorklistAfterScavenge"
    /\ IsMarking
    /\ \E i \in DOMAIN last.worklist :
           /\ InFromSpace(last.worklist[i])
           /\ forwarding[last.worklist[i]] # NULL
           /\ i \in DOMAIN worklist
           /\ worklist[i] = forwarding[last.worklist[i]]

\* C10: for NotifyLeftTrimming(from, to) called while marking, if from was
\* Black before the call then to is Black after it, and if from was Grey then
\* to is Grey, whether or not the mark bits of from and to overlap and with
\* or without concurrent marking.
C10_LeftTrimColorTransfer ==
    [][last'.op = "NotifyLeftTrimming" =>
          /\ IsBlack(bits, last'.from) => IsBlack(bits', last'.to)
          /\ IsGrey(bits, last'.from) => IsGrey(bits', last'.to)]_vars

\* NotifyLeftTrimming has returned from a trim by one word of an array that
\* was Black and not in a black area: the mark bits overlapped, the new start
\* looked Grey before the call and is Black now
C10_Witness ==
    /\ last.op = "NotifyLeftTrimming"
    /\ last.to = last.from + 1
    /\ last.from_colour = "black"
    /\ last.to_colour = "grey"
    /\ IsBlack(bits, last.to)

-----------------------------------------------------------------------------
(* The progress specification: one marking cycle of the marking            *)
(* specification in which the heap also hands objects back to the marker   *)
(* for a second visit                                                      *)

\* IncrementalMarking::ProcessBlackAllocatedObject, called by the heap on an
\* object it has written to without the write barrier
ProcessBlackAllocatedObject(obj) ==
    /\ Idle
    /\ stores < MaxStores
    /\ stores' = stores + 1
    /\ IF IsMarking /\ IsBlack(bits, obj)
       THEN SetMarking(RevisitObject(Marking, obj))
       ELSE UNCHANGED markVars
    /\ last' = [op |-> "ProcessBlackAllocatedObject", obj |-> obj,
                revisited |-> IsMarking /\ IsBlack(bits, obj)]
    /\ UNCHANGED << ctlVars, heapVars, collabVars, buildVars, scavVars, pc,
                    frame >>

NextProgress ==
    \/ Start(FALSE)
    \/ MutatorStores
    \/ \E obj \in Hosts : ProcessBlackAllocatedObject(obj)
    \/ \E b \in StepSizes :
           Step(b, "GC_VIA_STACK_GUARD", "FORCE_COMPLETION", "kV8")
    \/ ProcessMarkingWorklistIteration
    \/ StepReturn

SpecProgress == Init /\ [][NextProgress]_vars

Arrays == {o \in Objects : IsFixedArrayWithProgressBar(progress_bar, o)}

\* C11 as stated: within one marking cycle, over worklist visits, write
\* barrier calls and ProcessBlackAllocatedObject / RevisitObject calls, the
\* progress bar of a large array never decreases, and whenever it equals the
\* object size the array is Black.
C11_ProgressBarMonotonic ==
    /\ [][\A o \in Arrays : progress_bar'[o] >= progress_bar[o]]_vars
    /\ [](\A o \in Arrays :
              progress_bar[o] = SizeFromMap(o) => IsBlack(bits, o))

\* C11 amended: the progress bar decreases only in a call of
\* ProcessBlackAllocatedObject that revisits the array (RevisitObject resets
\* it and scans from the start of the body again); and an array whose
\* progress bar equals its size is Black, or else Grey because the push of the
\* array failed on a full worklist during the visit that scanned it to its end.
C11_ProgressBarMonotonicButRevisit ==
    [][\A o \in Arrays :
          /\ progress_bar'[o] < progress_bar[o] =>
                 /\ last'.op = "ProcessBlackAllocatedObject"
                 /\ last'.obj = o
                 /\ last'.revisited
                 /\ progress_bar'[o] >= kStartOffset
          /\ (progress_bar'[o] = SizeFromMap(o) /\ ~IsBlack(bits', o)) =>
                 /\ IsGrey(bits', o)
                 /\ \/ IsFull(worklist')
                    \/ progress_bar[o] = SizeFromMap(o) /\ IsGrey(bits, o)]_vars

\* ProcessBlackAllocatedObject has revisited the array, which was scanned to
\* its end, and the progress bar is back at the end of the first chunk
C11_Witness ==
    /\ last.op = "ProcessBlackAllocatedObject"
    /\ last.revisited
    /\ last.obj \in Arrays
    /\ IsBlack(bits, last.obj)
    /\ progress_bar[last.obj] = kStartOffset + kProgressBarScanningChunk
    /\ progress_bar[last.obj] < SizeFromMap(last.obj)
    /\ OnWorklist(last.obj)

\* C12 as stated: the progress bar of each array lies between 0 and the
\* object size; a visit of the array made while the worklist is not full
\* advances the progress bar by exactly one chunk, or to the object size if
\* less than a chunk remains; a visit with the progress bar at the object size
\* scans nothing and does not push the array again.
C12_ChunkAdvance ==
    /\ [](\A o \in Arrays :
              0 <= progress_bar[o] /\ progress_bar[o] <= SizeFromMap(o))
    /\ [][\A o \in Arrays :
              (Pops(o) /\ ~IsFull(worklist)) =>
                  IF progress_bar[o] = SizeFromMap(o)
                  THEN /\ progress_bar'[o] = progress_bar[o]
                       /\ recorded_slots' = recorded_slots
                       /\ ~Pushed(o)
                  ELSE progress_bar'[o] =
                           Min(SizeFromMap(o),
                               progress_bar[o] + kProgressBarScanningChunk)]_vars

\* C12 amended: the scan starts at the larger of the progress bar and the
\* start of the body, so the first visit moves the progress bar from 0 to the
\* header size plus one chunk; and the visit scans on to the end of the array
\* when the worklist is full after a chunk, which the pushes of the visit
\* itself can bring about.
C12_ChunkAdvanceFromBodyStart ==
    /\ [](\A o \in Arrays :
              0 <= progress_bar[o] /\ progress_bar[o] <= SizeFromMap(o))
    /\ [][\A o \in Arrays :
              Pops(o) =>
                  IF progress_bar[o] = SizeFromMap(o)
                  THEN /\ progress_bar'[o] = progress_bar[o]
                       /\ recorded_slots' = recorded_slots
                       /\ ~Pushed(o)
                  ELSE progress_bar'[o] =
                           IF IsFull(worklist') THEN SizeFromMap(o)
                           ELSE Min(SizeFromMap(o),
                                    Max(kStartOffset, progress_bar[o])
                                        + kProgressBarScanningChunk)]_vars

\* the drain loop has visited an array for the first time with room on the
\* worklist: the progress bar stands at the header size plus one chunk, short
\* of the object size, and the array is on the worklist again
C12_Witness ==
    /\ pc = "drain"
    /\ frame.bytes_processed > 0
    /\ ~IsFull(worklist)
    /\ \E o \in Arrays :
           /\ progress_bar[o] = kStartOffset + kProgressBarScanningChunk
           /\ progress_bar[o] < SizeFromMap(o)
           /\ OnWorklist(o)

\* the drain loop pops o, which is Black already and no filler
PopsBlack(o) == Pops(o) /\ IsBlack(bits, o) /\ ~IsFiller(o)

\* C13 as stated: an entry for an object that is Black already changes no
\* colour, and when the drain loop pops it the entry is filtered: the object
\* is not scanned again and its size is not credited to bytes_processed.
C13_DuplicateFiltered ==
    [][\A o \in Objects :
          PopsBlack(o) =>
              /\ bits' = bits
              /\ progress_bar' = progress_bar
              /\ recorded_slots' = recorded_slots
              /\ frame'.bytes_processed = frame.bytes_processed]_vars

\* C13 amended: the entry is not filtered.  The drain loop visits the object
\* again, a progress-bar array from its progress bar on and any other object
\* in full, and credits its size less the unscanned bytes.  The visit turns no
\* object White and no other object away from Black or Grey: White objects it
\* reaches turn Grey, and the array itself turns Grey if its push fails.
C13_DuplicateRevisited ==
    [][\A o \in Objects :
          PopsBlack(o) =>
              /\ frame'.bytes_processed =
                     frame.bytes_processed + SizeFromMap(o)
                         - unscanned_bytes_of_large_object'
              /\ IF o \in Arrays
                 THEN \/ progress_bar'[o] > progress_bar[o]
                      \/ progress_bar[o] = SizeFromMap(o) /\ UNCHANGED progress_bar
                 ELSE \A k \in BodyOffsets(o) :
                          FieldAt(o, k) # NULL => ~IsWhite(bits', FieldAt(o, k))
              /\ \A x \in Objects \ {o} :
                     \/ Colour(bits', x) = Colour(bits, x)
                     \/ IsWhite(bits, x) /\ IsGrey(bits', x)
              /\ \/ IsBlack(bits', o)
                 \/ IsGrey(bits', o) /\ IsFull(worklist')]_vars

\* the drain loop has popped the last entry of an array that was Black and
\* scanned to its end: the array is Black, off the worklist, and the loop has
\* credited more than the size of the array
C13_Witness ==
    /\ pc = "drain"
    /\ ~IsFull(worklist)
    /\ \E o \in Arrays :
           /\ IsBlack(bits, o)
           /\ progress_bar[o] = SizeFromMap(o)
           /\ ~OnWorklist(o)
           /\ frame.bytes_processed > SizeFromMap(o)

-----------------------------------------------------------------------------
(* The allocation specification: marking cycles on a heap with a linear    *)
(* allocation area in old, map, code and new space, from which the mutator *)
(* allocates                                                               *)

\* IncrementalMarking::PauseBlackAllocation: UnmarkAllocationInfo clears the
\* mark bits of the three areas
PauseBlackAllocation ==
    /\ Idle
    /\ IsMarking
    /\ black_allocation
    /\ bits' = [a \in DOMAIN bits |-> bits[a] /\ a \notin LinearAllocationAreas]
    /\ black_allocation' = FALSE
    /\ last' = [op |-> "PauseBlackAllocation"]
    /\ UNCHANGED << state, is_compacting, should_hurry, was_activated,
                    finalize_marking_completed, request_type, bytes_allocated,
                    bytes_marked_ahead_of_schedule, idle_marking_delay_counter,
                    incremental_marking_finalization_rounds, progress_bar,
                    worklist, bailout, recorded_slots,
                    unscanned_bytes_of_large_object, heapVars, collabVars,
                    buildVars, scavVars, pc, frame, stores >>

AllocationSpaces == {"old", "map", "code", "new"}

\* the tag of the words of the linear allocation area of a space
AreaOf(in_space) ==
    IF in_space = "old" THEN "old_area"
    ELSE IF in_space = "map" THEN "map_area"
    ELSE IF in_space = "code" THEN "code_area"
    ELSE "new_area"

\* the allocator hands out the two words at the top of the linear allocation
\* area of the space; it writes the map word and touches no mark bit, so the
\* object has the colour the mark bits of the area give it
Allocate(in_space, address) ==
    /\ Idle
    /\ address \in DOMAIN space /\ address + 1 \in DOMAIN space
    /\ space[address] = AreaOf(in_space)
    /\ space[address + 1] = AreaOf(in_space)
    /\ \A a \in DOMAIN space : space[a] = AreaOf(in_space) => a >= address
    /\ kind' = [kind EXCEPT ![address] = IF in_space = "code" THEN "code"
                                         ELSE "object"]
    /\ fields' = [fields EXCEPT ![address] = << 1, NULL >>]
    /\ space' = [space EXCEPT
                     ![address] = IF in_space = "new" THEN "to" ELSE "old",
                     ![address + 1] = IF in_space = "new" THEN "to" ELSE "old"]
    /\ last' = [op |-> "Allocate", address |-> address, in_space |-> in_space,
                black_allocation |-> black_allocation]
    /\ UNCHANGED << ctlVars, markVars, roots, collabVars, buildVars, retainVars,
                    forwarding, sweep_to_iterate, external_bits, pc, frame,
                    stores >>

\* the map at 1, a root object at 3, and two free words in each of the linear
\* allocation areas of old space (5), code space (7), new space (9) and map
\* space (11)
InitAllocationHeap ==
    /\ InitNoRetainedMaps
    /\ kind = << "map", "none", "object", "none", "none", "none", "none",
                 "none", "none", "none", "none", "none" >>
    /\ fields = << <<1>>, << >>, <<1, NULL>>, << >>, << >>, << >>, << >>,
                   << >>, << >>, << >>, << >>, << >> >>
    /\ bits = [a \in 1..12 |-> FALSE]
    /\ progress_bar = << >>
    /\ roots = {3}
    /\ space = [a \in 1..12 |->
                   IF a \in 5..6 THEN "old_area"
                   ELSE IF a \in 7..8 THEN "code_area"
                   ELSE IF a \in 9..10 THEN "new_area"
                   ELSE IF a \in 11..12 THEN "map_area"
                   ELSE "old"]
    /\ forwarding = [a \in 1..12 |-> NULL]
    /\ sweep_to_iterate = [a \in 1..12 |-> FALSE]
    /\ external_bits = [a \in 1..12 |-> "white"]

InitAllocation == InitController /\ InitBuild /\ InitAllocationHeap

NextAllocation ==
    \/ \E sweeping \in BOOLEAN : Start(sweeping)
    \/ Stop
    \/ StepUnbounded
    \/ ProcessMarkingWorklistIteration
    \/ StepReturn
    \/ \E reduce_memory \in BOOLEAN : FinalizeIncrementally(0, reduce_memory)
    \/ PauseBlackAllocation
    \/ \E in_space \in AllocationSpaces, address \in {5, 7, 9, 11} :
           Allocate(in_space, address)
    \/ ClearMarkbits

SpecAllocation == InitAllocation /\ [][NextAllocation]_vars

-----------------------------------------------------------------------------
(* Properties of black allocation and of finalization, checked under the   *)
(* controller specification                                                *)

\* the step runs StartMarking to its end
StartsMarking == ~IsMarking /\ state' = "MARKING"

C16_FinalizationRounds ==
    /\ [][last'.op = "FinalizeIncrementally" =>
              /\ incremental_marking_finalization_rounds' =
                     incremental_marking_finalization_rounds + 1
              /\ last'.marking_progress =
                     MarkingWorklistSize(worklist', bailout')
                         + last'.cached_wrappers
              /\ \A r \in roots : ~IsWhite(bits', r)
              /\ finalize_marking_completed' =
                     \/ incremental_marking_finalization_rounds' >=
                            FLAG_max_incremental_marking_finalization_rounds
                     \/ last'.marking_progress <
                            FLAG_min_progress_during_incremental_marking_finalization]_vars
    /\ [](incremental_marking_finalization_rounds >=
              FLAG_max_incremental_marking_finalization_rounds
          => finalize_marking_completed)

\* the second call of FinalizeIncrementally in a cycle has set
\* finalize_marking_completed on the count of rounds alone: the progress it
\* measured was not below the minimum
C16_Witness ==
    /\ last.op = "FinalizeIncrementally"
    /\ finalize_marking_completed
    /\ incremental_marking_finalization_rounds =
           FLAG_max_incremental_marking_finalization_rounds
    /\ last.marking_progress >=
           FLAG_min_progress_during_incremental_marking_finalization

\* the step is the head of a Step, and what that Step was told by the
\* collector and the isolate
StepTaken == Idle /\ (pc' = "drain" \/ last'.op = "Step")

StepAnswers == IF pc' = "drain" THEN frame' ELSE last'

IdleStepReturns ==
    /\ StepReturns
    /\ last'.completion = "DO_NOT_FORCE_COMPLETION"
    /\ last'.was_empty
    /\ last'.should_finalize

\* C18: a Step without FORCE_COMPLETION that finds the worklist empty and the
\* embedder ready to finalize requests finalization or completion only if
\* idle_marking_delay_counter exceeds kMaxIdleMarkingDelayCounter already;
\* otherwise it adds exactly one to the counter and leaves state and
\* request_type as they are.  The counter never passes the limit by more than
\* one, so the request comes after at most that many such Steps.
C18_IdleDelay ==
    /\ [][IdleStepReturns =>
              IF idle_marking_delay_counter > kMaxIdleMarkingDelayCounter
              THEN /\ request_type' =
                          IF finalize_marking_completed THEN "COMPLETE_MARKING"
                          ELSE "FINALIZATION"
                   /\ UNCHANGED idle_marking_delay_counter
              ELSE /\ idle_marking_delay_counter' =
                          idle_marking_delay_counter + 1
                   /\ UNCHANGED << state, request_type, gc_requested >>]_vars
    /\ [](idle_marking_delay_counter <= kMaxIdleMarkingDelayCounter + 1)

\* after Steps that only added to the counter, a Step without
\* FORCE_COMPLETION has found the counter past the limit and requested
\* finalization
C18_Witness ==
    /\ Idle
    /\ state = "MARKING"
    /\ last.op = "Step"
    /\ last.completion = "DO_NOT_FORCE_COMPLETION"
    /\ last.was_empty
    /\ last.should_finalize
    /\ idle_marking_delay_counter = kMaxIdleMarkingDelayCounter + 1
    /\ request_type = "FINALIZATION"

\* the step is a call of AdvanceIncrementalMarkingOnAllocation up to its
\* return or, if it calls Step, up to the drain loop of that Step
AdvanceCalled ==
    /\ Idle
    /\ \/ last'.op = "AdvanceIncrementalMarkingOnAllocation"
       \/ pc' = "drain"
              /\ frame'.caller = "AdvanceIncrementalMarkingOnAllocation"
       \/ pc' = "idle" /\ last'.op = "Step"
              /\ last'.caller = "AdvanceIncrementalMarkingOnAllocation"

\* the sizes the call computed, and whether it went on to call Step
AdvanceSizes == IF pc' = "drain" THEN frame' ELSE last'

AdvanceStepped == last'.op # "AdvanceIncrementalMarkingOnAllocation"

VisitsGreyArray(o) ==
    /\ Pops(o)
    /\ frame.caller = "Step"
    /\ frame.bytes_to_process = kProgressBarScanningChunk
    /\ IsGrey(bits, o)
    /\ ~IsFull(worklist)

\* C20 as stated: after a Step with a budget of one chunk has visited a Grey
\* progress-bar array larger than one chunk, the worklist not being full, the
\* array is still Grey, it has been pushed again, its progress bar is one
\* chunk further and a non-zero number of unscanned bytes has been reported.
C20_OneChunkKeepsGrey ==
    [][\A o \in Arrays :
          (VisitsGreyArray(o) /\ SizeFromMap(o) > kProgressBarScanningChunk) =>
              /\ IsGrey(bits', o)
              /\ Pushed(o)
              /\ progress_bar'[o] = progress_bar[o] + kProgressBarScanningChunk
              /\ unscanned_bytes_of_large_object' > 0]_vars

\* C20 amended: if more than one chunk of the array lies past
\* max(kStartOffset, progress_bar) and the worklist is not full after the chunk
\* either, the array is Black after the visit, it is on the worklist again,
\* its progress bar is max(kStartOffset, progress_bar) plus one chunk, a
\* non-zero number of unscanned bytes has been reported, and the drain loop of
\* the Step stops there.
C20_OneChunkBlackensAndRepushes ==
    [][\A o \in Arrays :
          ( /\ VisitsGreyArray(o)
            /\ SizeFromMap(o) - Max(kStartOffset, progress_bar[o]) >
                   kProgressBarScanningChunk
            /\ ~IsFull(worklist') ) =>
              /\ IsBlack(bits', o)
              /\ Pushed(o)
              /\ OnWorklist(o)'
              /\ progress_bar'[o] =
                     Max(kStartOffset, progress_bar[o])
                         + kProgressBarScanningChunk
              /\ unscanned_bytes_of_large_object' =
                     SizeFromMap(o) - kProgressBarScanningChunk
              /\ unscanned_bytes_of_large_object' > 0
              /\ frame'.bytes_processed >= frame'.bytes_to_process
              /\ ~DrainContinues']_vars

\* the drain loop of a Step with a budget of one chunk has stopped behind the
\* first chunk of an array, which is Black and on the worklist again
C20_Witness ==
    /\ pc = "drain"
    /\ frame.caller = "Step"
    /\ frame.bytes_to_process = kProgressBarScanningChunk
    /\ ~DrainContinues
    /\ ~IsFull(worklist)
    /\ unscanned_bytes_of_large_object > 0
    /\ \E o \in Arrays :
           /\ IsBlack(bits, o)
           /\ OnWorklist(o)
           /\ progress_bar[o] = kStartOffset + kProgressBarScanningChunk
           /\ progress_bar[o] < SizeFromMap(o)

\* the bytes of the body of the array o that the visit of this step scans:
\* VisitFixedArray scans from Max(kStartOffset, progress_bar) up to the
\* progress bar it stores
BytesScanned(o) ==
    IF Max(kStartOffset, progress_bar[o]) < SizeFromMap(o)
    THEN progress_bar'[o] - Max(kStartOffset, progress_bar[o])
    ELSE 0

\* the header of o, counted with a visit that starts at the body's start
HeaderRead(o) == IF progress_bar[o] <= kStartOffset THEN kStartOffset ELSE 0

\* what the drain loop adds to bytes_processed in this step
BytesCredited == frame'.bytes_processed - frame.bytes_processed

\* C21: for every visit of a progress-bar array by ProcessMarkingWorklist,
\* whether it leaves the scan incomplete or completes it, the amount added to
\* bytes_processed is the number of bytes of the array scanned in that visit
\* (the header may be counted with the first chunk), so that no byte is
\* credited that was not read.
C21_CreditsScannedBytes ==
    [][\A o \in Arrays :
          Pops(o) =>
              /\ BytesCredited >= BytesScanned(o)
              /\ BytesCredited <= BytesScanned(o) + HeaderRead(o)]_vars

\* a caller of MarkBlackAndPush: the mutator is about to change the layout of
\* obj in a way the marker must not see half done
MarkBlackAndPushCall(obj) ==
    /\ Idle
    /\ IsMarking
    /\ stores < MaxStores
    /\ stores' = stores + 1
    /\ SetMarking(MarkBlackAndPush(Marking, obj))
    /\ last' = [op |-> "MarkBlackAndPush", obj |-> obj,
                colour |-> Colour(bits, obj)]
    /\ UNCHANGED << ctlVars, heapVars, collabVars, buildVars, scavVars, pc,
                    frame >>

-----------------------------------------------------------------------------
(* The context specification: a cycle on a heap with a native context and   *)
(* its normalized-map cache, an array the mutator trims and an object in    *)
(* new space, with Steps, Hurry, stores and scavenges                       *)

\* the map at 1, a native context at 3 whose cache is the object at 5, an
\* array of four words at 7 and, in new space, an object at 11 that points at
\* the array; the words from 13 on are free; the context and the object in
\* new space are roots
InitContextHeap ==
    /\ InitNoRetainedMaps
    /\ kind = [a \in 1..14 |->
                  IF a = 1 THEN "map"
                  ELSE IF a = 3 THEN "native_context"
                  ELSE IF a = 5 THEN "object"
                  ELSE IF a = 7 THEN "array"
                  ELSE IF a = 11 THEN "object"
                  ELSE "none"]
    /\ fields = [a \in 1..14 |->
                    IF a = 1 THEN << 1 >>
                    ELSE IF a = 3 THEN << 1, 5 >>
                    ELSE IF a = 5 THEN << 1, NULL >>
                    ELSE IF a = 7 THEN << 1, NULL, NULL, NULL >>
                    ELSE IF a = 11 THEN << 1, 7 >>
                    ELSE << >>]
    /\ roots = {3, 11}
    /\ bits = [a \in 1..14 |-> FALSE]
    /\ progress_bar = << >>
    /\ space = [a \in 1..14 |-> IF a \in 11..14 THEN "to" ELSE "old"]
    /\ forwarding = [a \in 1..14 |-> NULL]
    /\ sweep_to_iterate = [a \in 1..14 |-> FALSE]
    /\ external_bits = [a \in 1..14 |-> "white"]

InitContext == InitController /\ InitBuild /\ InitContextHeap

NextContext ==
    \/ Start(FALSE)
    \/ \E b \in StepSizes :
           Step(b, "GC_VIA_STACK_GUARD", "FORCE_COMPLETION", "kV8")
    \/ ProcessMarkingWorklistIteration
    \/ StepReturn
    \/ HurryEnter
    \/ HurryReturn
    \/ MutatorStores
    \/ \E obj \in Hosts : MarkBlackAndPushCall(obj)
    \/ \E object \in Trimmable, elements_to_trim \in 1..2 :
           LeftTrimFixedArray(object, elements_to_trim)
    \/ \E outcome \in ScavengeOutcomes, external \in {"white", "grey"} :
           Scavenge(11, 13, outcome, external)
    \/ UpdateMarkingWorklistAfterScavenge

SpecContext == InitContext /\ [][NextContext]_vars

\* a marking cycle is under way, and no scavenge is in the middle of moving
\* objects
InCycle == state \in {"MARKING", "COMPLETE"} /\ pc # "scavenged"

\* o is Grey and has no entry on the worklist or the bailout worklist
GreyOffWorklist(o) == IsGrey(bits, o) /\ ~OnWorklist(o)

\* C22 as stated: in every reachable state of a marking cycle every Grey
\* object has an entry on the marking worklist or the bailout worklist,
\* normalized-map caches and the old starts of trimmed arrays included.
C22_GreyOnWorklist ==
    InCycle => \A o \in Objects : ~InFromSpace(o) => ~GreyOffWorklist(o)

\* o was Grey and off the worklist before the step; a copy the scavenger has
\* just made does not count while the entry of its original is there to be
\* replaced
GreyOffWorklistBefore(o) ==
    /\ o \in Objects
    /\ GreyOffWorklist(o)
    /\ ~(pc = "scavenged"
         /\ \E e \in Objects : forwarding[e] = o /\ OnWorklist(e))

\* the step is a visit of a native context whose cache is o
VisitsContextOf(o) ==
    \E c \in NativeContexts :
        Pops(c) /\ FieldAt(c, NORMALIZED_MAP_CACHE_INDEX) = o

\* C22 amended: a Grey object comes to be without an entry only as the cache
\* of a native context that is visited, as a filler that left trimming or a
\* pop leaves behind, through a push that a full worklist refuses, as an
\* object on a SWEEP_TO_ITERATE page that is not Grey in the external marking
\* state, or, in the middle of a scavenge, as the copy of an object; and the
\* visit of a native context with a White cache leaves the cache Grey without
\* pushing it.
C22_GreyOnWorklistButCaches ==
    /\ [][(state' \in {"MARKING", "COMPLETE"}) =>
             \A o \in Objects' :
                 (GreyOffWorklist(o)' /\ ~InFromSpace(o)') =>
                     \/ GreyOffWorklistBefore(o)
                     \/ VisitsContextOf(o)
                     \/ IsFiller(o)'
                     \/ IsFull(worklist')
                     \/ sweep_to_iterate'[o] /\ external_bits'[o] # "grey"
                     \/ pc' = "scavenged"
                            /\ \E e \in Objects' : forwarding'[e] = o]_vars
    /\ [][\A o \in NormalizedMapCaches :
             (VisitsContextOf(o) /\ IsWhite(bits, o)) =>
                 IsGrey(bits', o) /\ ~Pushed(o)]_vars

\* a native context has been visited and is Black, and its cache is Grey
\* with no entry, on a worklist that has room
C22_Witness ==
    /\ InCycle
    /\ ~IsFull(worklist)
    /\ \E c \in NativeContexts :
           /\ IsBlack(bits, c)
           /\ FieldAt(c, NORMALIZED_MAP_CACHE_INDEX) # NULL
           /\ GreyOffWorklist(FieldAt(c, NORMALIZED_MAP_CACHE_INDEX))

\* C23 as stated: no sequence of WhiteToGreyAndPush, MarkBlackAndPush,
\* VisitObject, write-barrier calls and NotifyLeftTrimming, whether the mark
\* bits overlap or not and with or without concurrent marking, leaves an
\* object with the impossible colour 01.
C23_NoImpossibleColour ==
    \A o \in Objects : ~IsImpossible(bits, o)

\* C23 amended: the only object that comes to read 01 is a one-word filler
\* that left trimming left White: its second mark bit is the first mark bit of
\* the new start behind it, which is set when the new start is marked; the
\* new start is the array still, or a filler of a later trim.
C23_NoImpossibleColourButFiller ==
    \A o \in Objects :
        IsImpossible(bits, o) =>
            /\ kind[o] = "one_pointer_filler"
            /\ kind[o + 1] = "array" \/ IsFiller(o + 1)
            /\ ~IsWhite(bits, o + 1)

\* a White array has been trimmed by one word and its new start has been
\* greyed since: the one-word filler reads 01, and no other object does
C23_Witness ==
    /\ InCycle
    /\ \E o \in Objects :
           /\ kind[o] = "one_pointer_filler"
           /\ IsImpossible(bits, o)
           /\ IsGrey(bits, o + 1)
    /\ \A o \in Objects : ~IsFiller(o) => ~IsImpossible(bits, o)

\* the entries the update is to drop: those in from-space with no forwarding
\* address, those on a SWEEP_TO_ITERATE page, in to-space or in old space,
\* that are not Grey in the external marking state, and those in old space
\* whose map is the one-pointer filler map
EntryToDrop(e) ==
    \/ InFromSpace(e) /\ forwarding[e] = NULL
    \/ sweep_to_iterate[e] /\ space[e] \in {"to", "old"}
           /\ external_bits[e] # "grey"
    \/ space[e] = "old" /\ kind[e] = "one_pointer_filler"

EntryToKeep(e) == ~EntryToDrop(e)

\* the worklist without the entries to drop, the others in their order, an
\* entry in from-space standing for its forwarding address
EntriesKept(wl) ==
    LET kept == SelectSeq(wl, EntryToKeep)
    IN  [i \in DOMAIN kept |->
            IF InFromSpace(kept[i]) THEN forwarding[kept[i]] ELSE kept[i]]

\* C24: a call of UpdateMarkingWorklistAfterScavenge made while marking drops
\* the entries in from-space that have no forwarding address, the entries on
\* a SWEEP_TO_ITERATE page that are not Grey in the external state and the
\* entries in old space whose map is the one-pointer filler map, and no
\* others; the entries that stay keep their order; no entry is added and the
\* worklist does not grow.
C24_DropsExactly ==
    [][(UpdateReturns /\ IsMarking) =>
          /\ worklist' = EntriesKept(worklist)
          /\ bailout' = EntriesKept(bailout)
          /\ Len(worklist') <= Len(worklist)
          /\ Len(bailout') <= Len(bailout)
          /\ \A o \in DOMAIN kind :
                 Count(worklist', o) > Count(worklist, o) =>
                     \E e \in DOMAIN kind :
                         forwarding[e] = o /\ OnWorklist(e)]_vars

\* the update has returned while marking and has dropped the entry of a
\* one-word filler in old space, keeping the entry of the trimmed array
C24_Witness ==
    /\ last.op = "UpdateMarkingWorklistAfterScavenge"
    /\ IsMarking
    /\ \E i \in DOMAIN last.worklist :
           /\ kind[last.worklist[i]] = "one_pointer_filler"
           /\ space[last.worklist[i]] = "old"
           /\ ~OnWorklist(last.worklist[i])
    /\ Len(worklist) < Len(last.worklist)
    /\ worklist # << >>

\* the step is a call of NotifyLeftTrimming(from, to)
LeftTrims(from, to) ==
    /\ last'.op = "NotifyLeftTrimming"
    /\ last'.from = from
    /\ last'.to = to

\* the early return of NotifyLeftTrimming: to lies in a black area
ToInBlackArea(to) == black_allocation /\ IsBlack(bits, to)

\* from is Grey, or concurrent marking is on and the call itself turns from
\* Black
FromGreyOrBlackened(from) ==
    \/ IsGrey(bits, from)
    \/ FLAG_concurrent_marking /\ IsWhite(bits, from)

\* the entries for to that the step adds
PushesOf(to) ==
    (Count(worklist', to) + Count(bailout', to))
        - (Count(worklist, to) + Count(bailout, to))

\* C25 as stated: NotifyLeftTrimming pushes to exactly once when from was
\* Grey or was turned Black by the call itself under concurrent marking, and
\* pushes nothing when from was Black already, when from is White in
\* non-concurrent mode, or when black allocation is on and to is Black
\* already; in the last two cases no mark bit changes.
C25_PushesNewStartOnce ==
    [][\A from, to \in DOMAIN kind :
          LeftTrims(from, to) =>
              IF ToInBlackArea(to)
              THEN UNCHANGED << worklist, bailout, bits >>
              ELSE IF FromGreyOrBlackened(from)
              THEN /\ PushesOf(to) = 1
                   /\ worklist' = Append(worklist, to)
                   /\ UNCHANGED bailout
              ELSE IF IsBlack(bits, from)
              THEN UNCHANGED << worklist, bailout >>
              ELSE UNCHANGED << worklist, bailout, bits >>]_vars

\* C25 amended: the push is made unless the worklist is full; with a full
\* worklist to is turned Grey all the same and gets no entry.
C25_PushesNewStartOnceUnlessFull ==
    [][\A from, to \in DOMAIN kind :
          LeftTrims(from, to) =>
              IF ToInBlackArea(to)
              THEN UNCHANGED << worklist, bailout, bits >>
              ELSE IF FromGreyOrBlackened(from)
              THEN /\ IF IsFull(worklist)
                      THEN PushesOf(to) = 0 /\ UNCHANGED worklist
                      ELSE PushesOf(to) = 1
                               /\ worklist' = Append(worklist, to)
                   /\ IsGrey(bits', to)
                   /\ UNCHANGED bailout
              ELSE IF IsBlack(bits, from)
              THEN UNCHANGED << worklist, bailout >>
              ELSE UNCHANGED << worklist, bailout, bits >>]_vars

\* NotifyLeftTrimming has returned from the trim of a White array under
\* concurrent marking: the call has turned the old start Black, and the new
\* start is Grey and has the one entry the call pushed
C25_Witness ==
    /\ last.op = "NotifyLeftTrimming"
    /\ FLAG_concurrent_marking
    /\ last.from_colour = "white"
    /\ IsBlack(bits, last.from)
    /\ IsGrey(bits, last.to)
    /\ Count(worklist, last.to) = 1
    /\ worklist[Len(worklist)] = last.to

-----------------------------------------------------------------------------
(* The race specification: under concurrent marking a worker blackens and   *)
(* visits entries of the shared worklist while the mutator trims an array;  *)
(* NotifyLeftTrimming is taken apart at its atomic operations               *)

\* a trim whose Grey-to-Black step claims to have won whatever the bit says
WonGreyToBlack_Always(b, from) == TRUE

\* the result of Marking::GreyToBlack<kAtomicity>(old_mark_bit) in
\* NotifyLeftTrimming: true iff this call made the transition
WonGreyToBlack(b, from) == CanGreyToBlack(b, from)

\* NotifyLeftTrimming from the test of the colour of from on, given whether
\* the call itself turned from Black
NotifyLeftTrimmingTail(m, from, to, marked_black_due_to_left_trimming) ==
    LET overlap == from + 1 = to
        b1 == m.bits
    IN  IF IsBlack(b1, from) /\ ~marked_black_due_to_left_trimming
        THEN [m |-> [m EXCEPT !.bits = IF overlap THEN SetBit(b1, to + 1)
                                       ELSE WhiteToBlack(b1, to)],
              restart |-> FALSE]
        ELSE IF IsGrey(b1, from) \/ marked_black_due_to_left_trimming
        THEN [m |-> Push([m EXCEPT !.bits = IF overlap THEN SetBit(b1, to)
                                            ELSE WhiteToGrey(b1, to)], to),
              restart |-> TRUE]
        ELSE [m |-> m, restart |-> FALSE]

\* Heap::LeftTrimFixedArray under concurrent marking, up to and including
\* Marking::WhiteToGrey(old_mark_bit) in NotifyLeftTrimming
LeftTrimEnter(object, elements_to_trim) ==
    LET to == object + elements_to_trim IN
    /\ Idle
    /\ IsMarking
    /\ FLAG_concurrent_marking
    /\ stores < MaxStores
    /\ SizeFromMap(object) - elements_to_trim >= 2
    /\ stores' = stores + 1
    /\ frame' = [caller |-> "NotifyLeftTrimming", from |-> object, to |-> to,
                 elements_to_trim |-> elements_to_trim,
                 returned |-> black_allocation /\ IsBlack(bits, to),
                 marked_black_due_to_left_trimming |-> FALSE,
                 from_colour |-> Colour(bits, object),
                 to_colour |-> Colour(bits, to),
                 from_on_worklist |-> OnWorklist(object),
                 worker_won |-> FALSE]
    /\ IF black_allocation /\ IsBlack(bits, to)
       THEN pc' = "trim_tail" /\ UNCHANGED bits
       ELSE pc' = "trim_cas" /\ bits' = WhiteToGrey(bits, object)
    /\ last' = [op |-> "LeftTrimFixedArray"]
    /\ UNCHANGED << ctlVars, progress_bar, worklist, bailout, recorded_slots,
                    unscanned_bytes_of_large_object, heapVars, collabVars,
                    buildVars, scavVars >>

\* Marking::GreyToBlack(old_mark_bit) in NotifyLeftTrimming
NotifyLeftTrimmingGreyToBlack ==
    /\ pc = "trim_cas"
    /\ pc' = "trim_tail"
    /\ bits' = GreyToBlack(bits, frame.from)
    /\ frame' = [frame EXCEPT !.marked_black_due_to_left_trimming =
                                  WonGreyToBlack(bits, frame.from)]
    /\ last' = [op |-> "GreyToBlack"]
    /\ UNCHANGED << ctlVars, progress_bar, worklist, bailout, recorded_slots,
                    unscanned_bytes_of_large_object, heapVars, collabVars,
                    buildVars, scavVars, stores >>

\* the rest of NotifyLeftTrimming and of Heap::LeftTrimFixedArray: the colour
\* is transferred, the first words of the array become a filler and the
\* references to the array follow it
LeftTrimReturn ==
    LET object == frame.from
        to == frame.to
        elements_to_trim == frame.elements_to_trim
        size == SizeFromMap(object)
        move(x) == IF x = object THEN to ELSE x
        r == IF frame.returned THEN [m |-> Marking, restart |-> FALSE]
             ELSE NotifyLeftTrimmingTail(Marking, object, to,
                      frame.marked_black_due_to_left_trimming)
        kept == {sl \in r.m.slots : sl[1] # object}
                \cup {<<to, sl[2] - elements_to_trim>> :
                         sl \in {x \in r.m.slots :
                                    x[1] = object /\ x[2] > elements_to_trim}}
    IN  /\ pc = "trim_tail"
        /\ pc' = "idle"
        /\ frame' = NoFrame
        /\ SetMarking([r.m EXCEPT !.slots = kept])
        /\ RestartIfNotMarking(r.restart)
        /\ kind' = [kind EXCEPT
                        ![object] = IF elements_to_trim = 1
                                    THEN "one_pointer_filler"
                                    ELSE "two_pointer_filler",
                        ![to] = "array"]
        /\ fields' = [o \in DOMAIN fields |->
                         IF o = object THEN [i \in 1 .. elements_to_trim |-> NULL]
                         ELSE IF o = to
                         THEN << MapOf(object) >> \o
                              SubSeq(fields[object], elements_to_trim + 2, size)
                         ELSE [i \in DOMAIN fields[o] |->
                                  IF i > 1 THEN move(fields[o][i])
                                  ELSE fields[o][i]]]
        /\ roots' = {move(r0) : r0 \in roots}
        /\ last' = [op |-> "NotifyLeftTrimming", from |-> object, to |-> to,
                    from_colour |-> frame.from_colour,
                    to_colour |-> frame.to_colour,
                    from_on_worklist |-> frame.from_on_worklist,
                    worker_won |-> frame.worker_won,
                    returned |-> frame.returned,
                    marked_black_due_to_left_trimming |->
                        frame.marked_black_due_to_left_trimming,
                    was_full |-> IsFull(worklist)]
        /\ UNCHANGED << is_compacting, should_hurry, was_activated,
                        black_allocation, finalize_marking_completed,
                        request_type, bytes_allocated,
                        bytes_marked_ahead_of_schedule,
                        idle_marking_delay_counter,
                        incremental_marking_finalization_rounds, collabVars,
                        buildVars, retainVars, scavVars, stores >>

\* a step of a ConcurrentMarking task: it takes the entry at the top of the
\* shared worklist and, if its own Grey-to-Black transition succeeds, visits
\* the object; it runs between any two steps of the mutator thread
ConcurrentMarkingTask ==
    /\ FLAG_concurrent_marking
    /\ IsMarking
    /\ pc \in {"idle", "trim_cas", "trim_tail"}
    /\ worklist # << >>
    /\ LET obj == worklist[Len(worklist)]
           m0 == [Marking EXCEPT !.worklist = SubSeq(@, 1, Len(@) - 1)]
           won == CanGreyToBlack(bits, obj) /\ ~IsFiller(obj)
       IN  /\ SetMarking(IF won
                         THEN Visit(WhiteToGreyAndPush(
                                        [m0 EXCEPT !.bits = GreyToBlack(@, obj)],
                                        MapOf(obj)), obj)
                         ELSE m0)
           /\ frame' = IF pc # "idle" /\ obj = frame.from /\ won
                       THEN [frame EXCEPT !.worker_won = TRUE]
                       ELSE frame
           /\ last' = IF pc = "idle"
                      THEN [op |-> "ConcurrentMarking", obj |-> obj,
                            won |-> won]
                      ELSE last
    /\ UNCHANGED << ctlVars, heapVars, collabVars, buildVars, scavVars, pc,
                    stores >>

\* the map at 1, an array of four words at 3 and objects at 7 and 9; the
\* array and the objects are roots; concurrent marking is on
InitRaceHeap ==
    /\ InitNoRetainedMaps
    /\ kind = [a \in 1..10 |->
                  IF a = 1 THEN "map"
                  ELSE IF a = 3 THEN "array"
                  ELSE IF a \in {7, 9} THEN "object"
                  ELSE "none"]
    /\ fields = [a \in 1..10 |->
                    IF a = 1 THEN << 1 >>
                    ELSE IF a = 3 THEN << 1, NULL, NULL, NULL >>
                    ELSE IF a \in {7, 9} THEN << 1, NULL >>
                    ELSE << >>]
    /\ roots \in {{3}, {3, 7, 9}}
    /\ bits = [a \in 1..10 |-> FALSE]
    /\ progress_bar = << >>

InitRace ==
    /\ InitController
    /\ V8_CONCURRENT_MARKING = TRUE
    /\ FLAG_concurrent_marking = TRUE
    /\ InitRaceHeap
    /\ InitNoScavenge

NextRace ==
    \/ Start(FALSE)
    \/ StepUnbounded
    \/ ProcessMarkingWorklistIteration
    \/ StepReturn
    \/ ConcurrentMarkingTask
    \/ \E object \in Trimmable, elements_to_trim \in 1..2 :
           LeftTrimEnter(object, elements_to_trim)
    \/ NotifyLeftTrimmingGreyToBlack
    \/ LeftTrimReturn

SpecRace == InitRace /\ [][NextRace]_vars

\* the step is the return of a NotifyLeftTrimming that found from Grey and
\* did not return early
RacedTrimReturns ==
    /\ pc = "trim_tail"
    /\ pc' = "idle"
    /\ frame.from_colour = "grey"
    /\ ~frame.returned

\* exactly one of the worker and NotifyLeftTrimming has made the Grey-to-Black
\* transition of from
ExactlyOneWon ==
    frame.marked_black_due_to_left_trimming # frame.worker_won

\* NotifyLeftTrimming is past its Grey-to-Black step
PastGreyToBlack == pc = "trim_tail" /\ ~frame.returned

\* C26 as stated: under concurrent marking, when NotifyLeftTrimming and a
\* worker race on the Grey-to-Black transition of from, exactly one of them
\* wins; from is Black when NotifyLeftTrimming goes on past that step; and the
\* new start is Black if the worker won, Grey and pushed if NotifyLeftTrimming
\* won, never White without an entry.
C26_RaceOnGreyToBlack ==
    /\ [](PastGreyToBlack => IsBlack(bits, frame.from))
    /\ [][RacedTrimReturns =>
             /\ ExactlyOneWon
             /\ IF frame.worker_won
                THEN IsBlack(bits', frame.to) /\ PushesOf(frame.to) = 0
                ELSE IsGrey(bits', frame.to) /\ PushesOf(frame.to) = 1
             /\ ~(IsWhite(bits', frame.to) /\ ~OnWorklist(frame.to)')]_vars

\* C26 amended: the same, but the push of the new start is lost when the
\* worklist is full: the new start is Grey then and has no entry.
C26_RaceOnGreyToBlackUnlessFull ==
    /\ [](PastGreyToBlack => IsBlack(bits, frame.from))
    /\ [][RacedTrimReturns =>
             /\ ExactlyOneWon
             /\ IF frame.worker_won
                THEN IsBlack(bits', frame.to) /\ PushesOf(frame.to) = 0
                ELSE /\ IsGrey(bits', frame.to)
                     /\ PushesOf(frame.to) = IF IsFull(worklist) THEN 0 ELSE 1
             /\ ~IsWhite(bits', frame.to)]_vars

\* a worker has blackened the Grey array between the steps of a
\* NotifyLeftTrimming, which has transferred Black to the new start
C26_Witness ==
    /\ last.op = "NotifyLeftTrimming"
    /\ last.from_colour = "grey"
    /\ last.worker_won
    /\ ~last.marked_black_due_to_left_trimming
    /\ IsBlack(bits, last.to)
    /\ ~OnWorklist(last.to)


-----------------------------------------------------------------------------
(* Interleaved calls of WhiteToGreyAndPush *)

\* the code that calls WhiteToGreyAndPush while marking is on: the write
\* barrier (63), the marking visitor (295) and a concurrent worker; the root
\* visitor (329) makes its calls inside Start
Callers == {"barrier", "visitor", "worker"}

\* a transition that every caller believes it has made
WhiteToGreyAndPushWon_Always(b, obj) == TRUE

\* ObjectMarking::WhiteToGrey<kAtomicity> in WhiteToGreyAndPush: true for the
\* caller whose compare-and-swap sets the first mark bit
WhiteToGreyAndPushWon(b, obj) == CanWhiteToGrey(b, obj)

\* the rest of WhiteToGreyAndPush, after the transition was attempted
WhiteToGreyAndPushTail(m, obj, won) == IF won THEN Push(m, obj) ELSE m

\* caller has entered WhiteToGreyAndPush
InCall(caller) == caller \in DOMAIN frame

\* caller enters WhiteToGreyAndPush(obj) and attempts the transition
WhiteToGreyAndPushEnter(caller, obj) ==
    /\ Idle
    /\ IsMarking
    /\ ~InCall(caller)
    /\ LET won == WhiteToGreyAndPushWon(bits, obj)
       IN  /\ bits' = IF won THEN WhiteToGrey(bits, obj) ELSE bits
           /\ frame' = [c \in DOMAIN frame \cup {caller} |->
                           IF c = caller
                           THEN [obj |-> obj, stage |-> "cas", result |-> won,
                                 colour |-> Colour(bits, obj),
                                 was_full |-> FALSE]
                           ELSE frame[c]]
    /\ UNCHANGED << ctlVars, heapVars, collabVars, buildVars, scavVars, pc,
                    last, stores, progress_bar, worklist, bailout,
                    recorded_slots, unscanned_bytes_of_large_object >>

\* caller pushes if its transition succeeded, and returns frame[caller].result
WhiteToGreyAndPushReturn(caller) ==
    /\ InCall(caller)
    /\ frame[caller].stage = "cas"
    /\ SetMarking(WhiteToGreyAndPushTail(Marking, frame[caller].obj,
                                         frame[caller].result))
    /\ frame' = [frame EXCEPT ![caller] =
                    [@ EXCEPT !.stage = "done",
                              !.was_full = IsFull(worklist)]]
    /\ UNCHANGED << ctlVars, heapVars, collabVars, buildVars, scavVars, pc,
                    last, stores >>

InitGrey == InitRace

NextGrey ==
    \/ Start(FALSE)
    \/ ConcurrentMarkingTask
    \/ \E caller \in Callers, obj \in Objects :
           WhiteToGreyAndPushEnter(caller, obj)
    \/ \E caller \in Callers : WhiteToGreyAndPushReturn(caller)

SpecGrey == InitGrey /\ [][NextGrey]_vars

\* the callers that have attempted the transition of o
CallsOn(o) == {c \in Callers : InCall(c) /\ frame[c].obj = o}

\* the step is the return of caller from WhiteToGreyAndPush
GreyAndPushReturns(c) ==
    /\ InCall(c)
    /\ frame[c].stage = "cas"
    /\ frame'[c].stage = "done"

\* the entries of frame[c].obj that the step adds to the worklist
EntriesAdded(c) ==
    Count(worklist', frame[c].obj) - Count(worklist, frame[c].obj)

\* exactly one of the calls on an object that the first of them found White
\* returns true, and no call on a Grey or Black object does
OneCallWins ==
    \A o \in Objects :
        /\ (\E c \in CallsOn(o) : frame[c].colour = "white")
               => Cardinality({c \in CallsOn(o) : frame[c].result}) = 1
        /\ \A c \in CallsOn(o) :
               frame[c].colour # "white" => ~frame[c].result

\* C27: WhiteToGreyAndPush pushes an object only when its own White-to-Grey
\* transition succeeds: of the calls made on one White object in any
\* interleaving exactly one returns true, that call adds exactly one entry and
\* the others add none; calls on a Grey or Black object push nothing.
C27_PushesOnce ==
    /\ []OneCallWins
    /\ [][\A c \in Callers :
              GreyAndPushReturns(c)
                  => EntriesAdded(c) = IF frame[c].result THEN 1 ELSE 0]_vars

\* C27 (amended): as above, but the call that returns true adds its entry only
\* if the worklist is not full; on a full worklist it adds none and the object
\* is Grey without an entry.
C27_PushesOnceUnlessFull ==
    /\ []OneCallWins
    /\ [][\A c \in Callers :
              GreyAndPushReturns(c)
                  => EntriesAdded(c) =
                         IF frame[c].result /\ ~IsFull(worklist)
                         THEN 1 ELSE 0]_vars

\* two callers met on one White object: one of them returned true and its
\* entry is on the worklist, the other returned false
C27_Witness ==
    \E c1 \in Callers, c2 \in Callers :
        /\ InCall(c1) /\ InCall(c2)
        /\ frame[c1].obj = frame[c2].obj
        /\ frame[c1].stage = "done" /\ frame[c2].stage = "done"
        /\ frame[c1].colour = "white" /\ frame[c1].result
        /\ ~frame[c1].was_full
        /\ ~frame[c2].result
        /\ Count(worklist, frame[c1].obj) = 1


-----------------------------------------------------------------------------
(* Map retaining at finalization *)

\* the map of maps at 1, maps at 3 and 11 whose prototype is the object at 7
\* and whose constructor is the object at 9; the list retains the two maps or
\* holds cleared cells, with any ages and any prefix of disposed maps
InitRetainHeap ==
    /\ kind = [a \in 1..14 |->
                  IF a \in {1, 3, 11} THEN "map"
                  ELSE IF a \in {7, 9} THEN "object"
                  ELSE "none"]
    /\ fields = [a \in 1..14 |->
                    IF a = 1 THEN << 1 >>
                    ELSE IF a \in {3, 11} THEN << 1, 7, 9 >>
                    ELSE IF a \in {7, 9} THEN << 1, NULL >>
                    ELSE << >>]
    /\ roots \in {{}, {9}, {7, 9}, {3, 9}}
    /\ bits = [a \in 1..14 |-> FALSE]
    /\ progress_bar = << >>
    /\ \E c0 \in {3, NULL}, c1 \in {11, NULL} :
           \E a0 \in 0 .. FLAG_retain_maps_for_n_gc,
              a1 \in 0 .. FLAG_retain_maps_for_n_gc :
               retained_maps = << c0, a0, c1, a1 >>
    /\ number_of_disposed_maps \in {0, 2, 4}
    /\ abort_incremental_marking \in BOOLEAN

InitRetain == InitController /\ InitBuild /\ InitRetainHeap /\ InitNoScavenge

NextRetain ==
    \/ Start(FALSE)
    \/ StepUnbounded
    \/ ProcessMarkingWorklistIteration
    \/ StepReturn
    \/ \E reduce_memory \in BOOLEAN : FinalizeIncrementally(0, reduce_memory)

SpecRetain == InitRetain /\ [][NextRetain]_vars

\* the indices of the entries of the retained-maps list
Entries == {i \in 0 .. (Len(retained_maps) - 1) : i % 2 = 0}

Cleared(i) == retained_maps[i + 1] = NULL

AgeBefore(i) == retained_maps[i + 2]

AgeAfter(i) == retained_maps'[i + 2]

\* the step is a call of FinalizeIncrementally
Finalizes ==
    incremental_marking_finalization_rounds' =
        incremental_marking_finalization_rounds + 1

\* the mark bits RetainMaps finds, MarkRoots having run
BitsAtRetainMaps == MarkRootSet(Marking, roots).bits

\* the map of entry i is White when RetainMaps runs
MapIsWhite(i) == IsWhite(BitsAtRetainMaps, retained_maps[i + 1])

\* the prototype of the map of entry i is a White heap object when
\* RetainMaps runs
PrototypeIsWhite(i) ==
    /\ Prototype(retained_maps[i + 1]) # NULL
    /\ IsWhite(BitsAtRetainMaps, Prototype(retained_maps[i + 1]))

AgesInRange ==
    \A i \in Entries : retained_maps[i + 2] \in 0 .. FLAG_retain_maps_for_n_gc

\* the list changes only in the FinalizeIncrementally call of round 0
RetainsInFirstRoundOnly ==
    retained_maps' # retained_maps
        => Finalizes /\ incremental_marking_finalization_rounds = 0

\* map retaining is disabled in the FinalizeIncrementally call of the step
MapRetainingIsDisabled ==
    \/ last'.reduce_memory
    \/ abort_incremental_marking
    \/ FLAG_retain_maps_for_n_gc = 0

\* C28: RetainMaps runs only in the FinalizeIncrementally call where the round
\* counter is 0, keeps every stored age within [0, MAX_AGE] and never
\* decrements the age of an entry below number_of_disposed_maps: such entries,
\* like entries whose map is marked already, get age MAX_AGE; the age of an
\* uncleared entry past the prefix with a White map goes down by one exactly
\* when it is above 0 and the prototype is White.
C28_RetainMapsAging ==
    /\ []AgesInRange
    /\ [][RetainsInFirstRoundOnly]_vars
    /\ [][Finalizes /\ incremental_marking_finalization_rounds = 0 =>
              \A i \in Entries :
                  IF i < number_of_disposed_maps
                  THEN AgeAfter(i) = FLAG_retain_maps_for_n_gc
                  ELSE ~Cleared(i) =>
                           IF ~MapIsWhite(i)
                           THEN AgeAfter(i) = FLAG_retain_maps_for_n_gc
                           ELSE AgeAfter(i) = AgeBefore(i) - 1
                                    <=> AgeBefore(i) > 0 /\ PrototypeIsWhite(i)]_vars

\* C28 (amended): as above, but an entry whose weak cell is cleared keeps its
\* age wherever it is in the list, and while map retaining is disabled the
\* age of an uncleared entry past the prefix with a White map becomes MAX_AGE
\* instead.
C28_RetainMapsAgingUnlessDisabled ==
    /\ []AgesInRange
    /\ [][RetainsInFirstRoundOnly]_vars
    /\ [][Finalizes /\ incremental_marking_finalization_rounds = 0 =>
              \A i \in Entries :
                  IF Cleared(i)
                  THEN AgeAfter(i) = AgeBefore(i)
                  ELSE IF i < number_of_disposed_maps \/ ~MapIsWhite(i)
                            \/ MapRetainingIsDisabled
                  THEN AgeAfter(i) = FLAG_retain_maps_for_n_gc
                  ELSE AgeAfter(i) = AgeBefore(i) - 1
                           <=> AgeBefore(i) > 0 /\ PrototypeIsWhite(i)]_vars

\* a FinalizeIncrementally call has reset the age of a disposed map and has
\* taken one off the age of a map past the prefix
C28_Witness ==
    /\ last.op = "FinalizeIncrementally"
    /\ number_of_disposed_maps = 2
    /\ last.retained_maps[1] # NULL
    /\ last.retained_maps[2] < FLAG_retain_maps_for_n_gc
    /\ retained_maps[2] = FLAG_retain_maps_for_n_gc
    /\ last.retained_maps[3] # NULL
    /\ retained_maps[4] = last.retained_maps[4] - 1


-----------------------------------------------------------------------------
(* StartMarking, one statement at a time *)

\* a StartMarking that schedules the worker tasks before it marks the roots
StartMarkingNext_TasksFirst(at) ==
    CASE at = "sm_state" -> "sm_patch"
      [] at = "sm_patch" -> "sm_worklist"
      [] at = "sm_worklist" -> "sm_barrier"
      [] at = "sm_barrier" -> "sm_cache"
      [] at = "sm_cache" ->
             IF FLAG_concurrent_marking /\ ~black_allocation
             THEN "sm_black"
             ELSE IF FLAG_concurrent_marking THEN "sm_tasks" ELSE "sm_roots"
      [] at = "sm_black" -> "sm_tasks"
      [] at = "sm_tasks" -> "sm_roots"
      [] OTHER -> "sm_return"

\* the statement of StartMarking that runs after the one at `at`
StartMarkingNext(at) ==
    CASE at = "sm_state" -> "sm_patch"
      [] at = "sm_patch" -> "sm_worklist"
      [] at = "sm_worklist" -> "sm_barrier"
      [] at = "sm_barrier" -> "sm_cache"
      [] at = "sm_cache" ->
             IF FLAG_concurrent_marking /\ ~black_allocation
             THEN "sm_black" ELSE "sm_roots"
      [] at = "sm_black" -> "sm_roots"
      [] at = "sm_roots" ->
             IF FLAG_concurrent_marking THEN "sm_tasks" ELSE "sm_return"
      [] OTHER -> "sm_return"

\* what a statement of StartMarking leaves alone besides the controller
StartMarkingKeeps ==
    UNCHANGED << should_hurry, was_activated, finalize_marking_completed,
                 request_type, bytes_allocated, bytes_marked_ahead_of_schedule,
                 idle_marking_delay_counter,
                 incremental_marking_finalization_rounds, heapVars, observers,
                 gc_requested, buildVars, scavVars, last, stores >>

\* IncrementalMarking::Start up to its call of StartMarking, sweeping being
\* over and the serializer disabled
StartEnter ==
    /\ Idle
    /\ state = "STOPPED"
    /\ MarkbitsAreClean
    /\ bytes_allocated' = 0
    /\ bytes_marked_ahead_of_schedule' = 0
    /\ should_hurry' = FALSE
    /\ was_activated' = TRUE
    /\ pc' = "sm_state"
    /\ frame' = [caller |-> "Start", bytes_allocated |-> bytes_allocated,
                 bytes_marked_ahead_of_schedule |->
                     bytes_marked_ahead_of_schedule,
                 was_activated |-> was_activated,
                 compilation_cache_cleared |-> FALSE,
                 tasks_scheduled |-> FALSE]
    /\ UNCHANGED << state, is_compacting, black_allocation,
                    finalize_marking_completed, request_type,
                    idle_marking_delay_counter,
                    incremental_marking_finalization_rounds, markVars,
                    heapVars, collabVars, buildVars, scavVars, last, stores >>

\* is_compacting_ = ... StartCompaction(); SetState(MARKING)
StartMarkingSetState ==
    /\ pc = "sm_state"
    /\ pc' = StartMarkingNext(pc)
    /\ is_compacting' \in BOOLEAN
    /\ state' = "MARKING"
    /\ StartMarkingKeeps
    /\ UNCHANGED << black_allocation, markVars, stub_mode, barrier_active,
                    frame >>

\* PatchIncrementalMarkingRecordWriteStubs(heap_, mode)
StartMarkingPatchStubs ==
    /\ pc = "sm_patch"
    /\ pc' = StartMarkingNext(pc)
    /\ PatchIncrementalMarkingRecordWriteStubs(
           IF is_compacting THEN "INCREMENTAL_COMPACTION" ELSE "INCREMENTAL")
    /\ StartMarkingKeeps
    /\ UNCHANGED << state, is_compacting, black_allocation, markVars,
                    barrier_active, frame >>

\* marking_worklist()->StartUsing()
StartMarkingStartUsing ==
    /\ pc = "sm_worklist"
    /\ pc' = StartMarkingNext(pc)
    /\ SetMarking([Marking EXCEPT !.worklist = << >>, !.bailout = << >>])
    /\ StartMarkingKeeps
    /\ UNCHANGED << state, is_compacting, black_allocation, stub_mode,
                    barrier_active, frame >>

\* ActivateIncrementalWriteBarrier()
StartMarkingActivateBarrier ==
    /\ pc = "sm_barrier"
    /\ pc' = StartMarkingNext(pc)
    /\ barrier_active' = TRUE
    /\ StartMarkingKeeps
    /\ UNCHANGED << state, is_compacting, black_allocation, markVars,
                    stub_mode, frame >>

\* compilation_cache()->MarkCompactPrologue()
StartMarkingClearCache ==
    /\ pc = "sm_cache"
    /\ pc' = StartMarkingNext(pc)
    /\ frame' = [frame EXCEPT !.compilation_cache_cleared = TRUE]
    /\ StartMarkingKeeps
    /\ UNCHANGED << state, is_compacting, black_allocation, markVars,
                    stub_mode, barrier_active >>

\* StartBlackAllocation() under FLAG_concurrent_marking && !black_allocation_
StartMarkingBlackAllocation ==
    /\ pc = "sm_black"
    /\ pc' = StartMarkingNext(pc)
    /\ black_allocation' = TRUE
    /\ SetMarking(StartBlackAllocation(Marking))
    /\ StartMarkingKeeps
    /\ UNCHANGED << state, is_compacting, stub_mode, barrier_active, frame >>

\* heap_->IterateStrongRoots(&visitor, VISIT_ONLY_STRONG)
StartMarkingMarkRoots ==
    /\ pc = "sm_roots"
    /\ pc' = StartMarkingNext(pc)
    /\ SetMarking(MarkRootSet(Marking, roots))
    /\ StartMarkingKeeps
    /\ UNCHANGED << state, is_compacting, black_allocation, stub_mode,
                    barrier_active, frame >>

\* heap_->concurrent_marking()->ScheduleTasks() under FLAG_concurrent_marking
StartMarkingScheduleTasks ==
    /\ pc = "sm_tasks"
    /\ pc' = StartMarkingNext(pc)
    /\ frame' = [frame EXCEPT !.tasks_scheduled = TRUE]
    /\ StartMarkingKeeps
    /\ UNCHANGED << state, is_compacting, black_allocation, markVars,
                    stub_mode, barrier_active >>

\* StartMarking returns, and Start adds the allocation observers
StartReturn ==
    /\ pc = "sm_return"
    /\ pc' = "idle"
    /\ frame' = NoFrame
    /\ observers' = TRUE
    /\ last' = [op |-> "Start", sweeping_in_progress |-> FALSE,
                bytes_allocated |-> frame.bytes_allocated,
                bytes_marked_ahead_of_schedule |->
                    frame.bytes_marked_ahead_of_schedule,
                was_activated |-> frame.was_activated]
    /\ UNCHANGED << ctlVars, markVars, heapVars, stub_mode, barrier_active,
                    gc_requested, buildVars, scavVars, stores >>

NextStart ==
    \/ StartEnter
    \/ StartMarkingSetState
    \/ StartMarkingPatchStubs
    \/ StartMarkingStartUsing
    \/ StartMarkingActivateBarrier
    \/ StartMarkingClearCache
    \/ StartMarkingBlackAllocation
    \/ StartMarkingMarkRoots
    \/ StartMarkingScheduleTasks
    \/ StartReturn
    \/ MutatorStores
    \/ StepUnbounded
    \/ ProcessMarkingWorklistIteration
    \/ StepReturn

SpecStart == Init /\ [][NextStart]_vars

\* the step is the statement of StartMarking that marks the strong roots
MarksRoots == pc = "sm_roots" /\ pc' # pc

\* what StartMarking has done before it marks the roots, by every build
DoneBeforeRoots ==
    /\ state = "MARKING"
    /\ \/ StubsAre(stub_mode, "INCREMENTAL")
       \/ StubsAre(stub_mode, "INCREMENTAL_COMPACTION")
    /\ barrier_active
    /\ frame.compilation_cache_cleared

\* C29: in StartMarking, colouring the strong roots grey is the last action:
\* it comes after the state is MARKING, the stubs are patched, the page flags
\* are set and the compilation cache is cleared and, under concurrent marking,
\* after black allocation is on and the worker tasks are scheduled.
C29_RootsGreyLast ==
    [][MarksRoots =>
           /\ DoneBeforeRoots
           /\ FLAG_concurrent_marking =>
                  black_allocation /\ frame.tasks_scheduled
           /\ \A r \in roots : ~IsWhite(bits', r)
           /\ pc' = "sm_return"]_vars

\* C29 (amended): as above, but under concurrent marking the worker tasks are
\* scheduled after the roots are grey, as the last action of StartMarking;
\* without concurrent marking colouring the roots is the last action.
C29_RootsGreyBeforeTasks ==
    [][/\ MarksRoots =>
              /\ DoneBeforeRoots
              /\ FLAG_concurrent_marking =>
                     black_allocation /\ ~frame.tasks_scheduled
              /\ \A r \in roots : ~IsWhite(bits', r)
              /\ pc' = IF FLAG_concurrent_marking
                       THEN "sm_tasks" ELSE "sm_return"
       /\ pc = "sm_tasks" /\ pc' # pc =>
              /\ \A r \in roots : ~IsWhite(bits, r)
              /\ frame'.tasks_scheduled
              /\ pc' = "sm_return"]_vars

\* under concurrent marking the roots are grey and on the worklist, black
\* allocation is on, and the worker tasks are still to be scheduled
C29_Witness ==
    /\ pc = "sm_tasks"
    /\ FLAG_concurrent_marking
    /\ black_allocation
    /\ ~frame.tasks_scheduled
    /\ worklist # << >>
    /\ \A r \in roots : IsGrey(bits, r)


-----------------------------------------------------------------------------
(* Hurry *)

\* the step is the return of a call of Hurry
HurryReturns == last'.op = "Hurry" /\ last.op # "Hurry"

\* C30: after Hurry returns the marking worklist is empty and no
\* normalized-map cache of a native context is Grey; the state is COMPLETE if
\* Hurry found the worklist non-empty, and the state of entry otherwise.
C30_HurryDrainsAndBlackensCaches ==
    [][HurryReturns =>
           /\ WorklistIsEmpty(worklist', bailout')
           /\ \A cache \in NormalizedMapCaches : ~IsGrey(bits', cache)
           /\ state' = IF last'.was_empty THEN last'.entered ELSE "COMPLETE"
           /\ last'.was_empty => state' = state]_vars

\* Hurry has drained a worklist that held the native context, whose cache the
\* visit left Grey and Hurry turned Black
C30_Witness ==
    /\ last.op = "Hurry"
    /\ ~last.was_empty
    /\ last.entered = "MARKING"
    /\ state = "COMPLETE"
    /\ WorklistIsEmpty(worklist, bailout)
    /\ \E cache \in NormalizedMapCaches : IsBlack(bits, cache)


-----------------------------------------------------------------------------
(* A Step that begins in SWEEPING *)

\* the step is an iteration of ProcessMarkingWorklist inside a Step that was
\* entered in state SWEEPING
DrainsInSweepingStep ==
    /\ pc = "drain"
    /\ frame.caller \in {"Step", "AdvanceIncrementalMarkingOnAllocation"}
    /\ frame.entered = "SWEEPING"
    /\ DrainContinues

\* C31: a Step that begins in state SWEEPING reports zero processed bytes and
\* takes nothing from the marking worklist, whether sweeping is still in
\* progress or the Step finishes sweeping and starts marking itself.
C31_SweepingStepProcessesNothing ==
    /\ []((last.op = "Step" /\ last.entered = "SWEEPING")
              => last.bytes_processed = 0)
    /\ [][~DrainsInSweepingStep]_vars


-----------------------------------------------------------------------------
(* The finalization flags at the start of a cycle *)

\* the step is a call of Start that begins a marking cycle
StartsCycle ==
    /\ state = "STOPPED"
    /\ last'.op = "Start"
    /\ state' \in {"SWEEPING", "MARKING"} \/ pc' = "sm_state"

FinalizationIsReset ==
    /\ ~finalize_marking_completed
    /\ incremental_marking_finalization_rounds = 0

\* C32: at the beginning of every marking cycle finalize_marking_completed is
\* false and the finalization round counter is 0, whatever calls came before
\* it, a Stop followed by Start with no Epilogue in between included.
C32_CycleStartsReset ==
    [][StartsCycle => FinalizationIsReset']_vars

\* C32 (amended): Start and Stop leave finalize_marking_completed and the
\* round counter as they are; only FinalizeIncrementally raises them and only
\* Epilogue resets them.  So a cycle begins with the flag false and the
\* counter 0 if Epilogue has run since the cycle before, and with the values
\* the cycle before left if it has not.
C32_CycleStartsResetAfterEpilogue ==
    /\ [](~was_activated => FinalizationIsReset)
    /\ [][StartsCycle =>
              /\ UNCHANGED << finalize_marking_completed,
                              incremental_marking_finalization_rounds >>
              /\ ~was_activated => FinalizationIsReset']_vars
    /\ [][last'.op = "Epilogue" => FinalizationIsReset']_vars
    /\ [][\/ UNCHANGED << finalize_marking_completed,
                          incremental_marking_finalization_rounds >>
          \/ Finalizes
          \/ last'.op = "Epilogue"]_vars

\* a second cycle has begun after an Epilogue, with the flag false and the
\* counter 0, the bytes allocated in the cycle before still counted
C32_Witness ==
    /\ last.op = "Start"
    /\ ~last.was_activated
    /\ last.bytes_allocated > 0
    /\ state = "MARKING"
    /\ FinalizationIsReset


-----------------------------------------------------------------------------
(* The modes of the RecordWrite stubs *)

\* RecordWrite stubs the dictionary holds at most
MaxStubs == 3

\* an activation that never chooses INCREMENTAL_COMPACTION
ActivatedMode_NeverCompacting ==
    IF ~IsMarking THEN "STORE_BUFFER_ONLY" ELSE "INCREMENTAL"

\* the mode IncrementalMarking::ActivateGeneratedStub leaves a stub in that
\* was generated in mode STORE_BUFFER_ONLY; IsCompacting() is
\* IsMarking() && is_compacting_
ActivatedMode ==
    IF ~IsMarking THEN "STORE_BUFFER_ONLY"
    ELSE IF is_compacting THEN "INCREMENTAL_COMPACTION"
    ELSE "INCREMENTAL"

\* a RecordWrite stub is generated, IncrementalMarking::ActivateGeneratedStub
\* is called on it and the stub joins the dictionary
ActivateGeneratedStub ==
    /\ Idle
    /\ Len(stub_mode) < MaxStubs
    /\ stub_mode' = Append(stub_mode, ActivatedMode)
    /\ last' = [op |-> "ActivateGeneratedStub"]
    /\ UNCHANGED << ctlVars, markVars, heapVars, observers, barrier_active,
                    gc_requested, buildVars, scavVars, pc, frame, stores >>

NextStubs ==
    \/ \E sweeping \in BOOLEAN : Start(sweeping)
    \/ Stop
    \/ StepUnbounded
    \/ ProcessMarkingWorklistIteration
    \/ StepReturn
    \/ HurryEnter
    \/ HurryReturn
    \/ \E reduce_memory \in BOOLEAN : FinalizeIncrementally(0, reduce_memory)
    \/ Epilogue
    \/ ClearMarkbits
    \/ ActivateGeneratedStub

SpecStubs == InitCycles /\ [][NextStubs]_vars

\* the mode the state of the controller asks of every stub
ModeOfState ==
    IF state \in {"STOPPED", "SWEEPING"} THEN "STORE_BUFFER_ONLY"
    ELSE IF is_compacting THEN "INCREMENTAL_COMPACTION"
    ELSE "INCREMENTAL"

====
